---- MODULE Spec2Model ----
(***************************************************************************)
(* A model of the ainotes knowledge-graph engine: the markdown parser's    *)
(* link extraction, the LinkResolver and its file index, GraphBuilder      *)
(* (build_graph / update_graph) and the CacheManager.                      *)
(*                                                                         *)
(* Text is modelled as sequences of one-character strings, a path as the   *)
(* sequence of its segments (pathlib's `parts` without the leading "/").   *)
(***************************************************************************)
EXTENDS Integers, Sequences, FiniteSets, TLC

\* Optional values: None is the empty sequence, a present value v is <<v>>.
None == <<>>
Some(v) == <<v>>
Val(opt) == opt[1]

-----------------------------------------------------------------------------
(* Strings *)

\* str.lower() on the characters used in the model.
Lower(c) ==
    CASE c = "A" -> "a"
      [] c = "B" -> "b"
      [] OTHER -> c

LowerStr(s) == [i \in 1..Len(s) |-> Lower(s[i])]

\* `sub in s` on strings.
Contains(sub, s) ==
    \E i \in 0..(Len(s) - Len(sub)) : SubSeq(s, i + 1, i + Len(sub)) = sub

StartsWith(s, p) == Len(p) <= Len(s) /\ SubSeq(s, 1, Len(p)) = p

EndsWith(s, p) == Len(p) <= Len(s) /\ SubSeq(s, Len(s) - Len(p) + 1, Len(s)) = p

RECURSIVE LStrip(_)
LStrip(s) == IF s # <<>> /\ Head(s) = " " THEN LStrip(Tail(s)) ELSE s

RECURSIVE RStrip(_)
RStrip(s) ==
    IF s # <<>> /\ s[Len(s)] = " " THEN RStrip(SubSeq(s, 1, Len(s) - 1)) ELSE s

\* str.strip()
Strip(s) == RStrip(LStrip(s))

\* Index of the first / last occurrence of character c in s, 0 if there is none.
FirstIndex(s, c) ==
    IF \E i \in 1..Len(s) : s[i] = c
    THEN CHOOSE i \in 1..Len(s) : s[i] = c /\ \A j \in 1..(i - 1) : s[j] # c
    ELSE 0

LastIndex(s, c) ==
    IF \E i \in 1..Len(s) : s[i] = c
    THEN CHOOSE i \in 1..Len(s) : s[i] = c /\ \A j \in (i + 1)..Len(s) : s[j] # c
    ELSE 0

\* str.split(sep) for a one-character separator.
RECURSIVE Split(_, _)
Split(s, sep) ==
    LET i == FirstIndex(s, sep)
    IN  IF i = 0 THEN <<s>>
        ELSE <<SubSeq(s, 1, i - 1)>> \o Split(SubSeq(s, i + 1, Len(s)), sep)

DotMd == <<".", "m", "d">>

-----------------------------------------------------------------------------
(* Paths (pathlib.PurePosixPath) *)

\* Path.parent / Path.name
Parent(p) == IF p = <<>> THEN <<>> ELSE SubSeq(p, 1, Len(p) - 1)
Name(p) == IF p = <<>> THEN <<>> ELSE p[Len(p)]

\* Path.suffix and Path.stem: the part of the name from its last dot, when that
\* dot is neither the first nor the last character of the name.
SuffixIndex(name) ==
    LET i == LastIndex(name, ".")
    IN  IF 1 < i /\ i < Len(name) THEN i ELSE 0

Suffix(p) ==
    LET n == Name(p) i == SuffixIndex(n)
    IN  IF i = 0 THEN <<>> ELSE SubSeq(n, i, Len(n))

Stem(p) ==
    LET n == Name(p) i == SuffixIndex(n)
    IN  IF i = 0 THEN n ELSE SubSeq(n, 1, i - 1)

\* The segments of a path written as text: empty and "." segments are dropped,
\* ".." segments are kept.
Segments(text) ==
    SelectSeq(Split(text, "/"), LAMBDA seg : seg # <<>> /\ seg # <<".">>)

\* dir / text: a text starting with "/" is absolute and replaces dir.
Join(dir, text) ==
    IF text # <<>> /\ Head(text) = "/" THEN Segments(text) ELSE dir \o Segments(text)

\* Path.with_suffix('.md'); raises ValueError on an empty name, which the caller
\* catches: modelled as None.
WithSuffixMd(p) ==
    IF Name(p) = <<>> THEN None ELSE Some(Parent(p) \o <<Stem(p) \o DotMd>>)

\* Lexical normalisation of ".." (the tree holds no symbolic links); ".." at
\* the top stays at the top.
RECURSIVE Normalize(_, _)
Normalize(done, rest) ==
    IF rest = <<>> THEN done
    ELSE IF Head(rest) = <<".", ".">>
         THEN Normalize(Parent(done), Tail(rest))
         ELSE Normalize(Append(done, Head(rest)), Tail(rest))

\* Path.resolve()
Resolve(p) == Normalize(<<>>, p)

\* ancestor in p.parents
InParents(ancestor, p) ==
    Len(ancestor) < Len(p) /\ SubSeq(p, 1, Len(ancestor)) = ancestor

\* any(part.startswith('.') for part in p.parts)
IsHidden(p) == \E i \in 1..Len(p) : StartsWith(p[i], <<".">>)

-----------------------------------------------------------------------------
(* The file system *)

\* The indexed root /r and its one sub-directory /r/s; directories are fixed,
\* files come and go.
R == <<"r">>
S == <<"s">>
NotesRoot == <<R>>
SubDir == <<R, S>>
Dirs == {<<>>, NotesRoot, SubDir}

NameA == <<"a", ".", "m", "d">>
NameB == <<"b", ".", "m", "d">>

\* The files that may exist: two of them share the stem "a".
RootA == <<R, NameA>>
SubA == <<R, S, NameA>>
SubB == <<R, S, NameB>>
FilePaths == {RootA, SubA, SubB}

\* The references a document's text may hold, one per line:
\*   [[a]]  [[b]]  [[zz]]  [x](../a.md)  [x](#h)
Wiki(inner) == [kind |-> "wiki", inner |-> inner, display |-> <<>>, target |-> <<>>]
Md(display, target) == [kind |-> "md", inner |-> <<>>, display |-> display, target |-> target]
RefWikiA == Wiki(<<"a">>)
RefWikiB == Wiki(<<"b">>)
RefWikiMissing == Wiki(<<"z", "z">>)
RefMdUp == Md(<<"x">>, <<".", ".", "/", "a", ".", "m", "d">>)
RefMdAnchor == Md(<<"x">>, <<"#", "h">>)
Refs == {RefWikiA, RefWikiB, RefWikiMissing, RefMdUp, RefMdAnchor}

\* The longest file name the file system takes, in bytes (NAME_MAX of Linux),
\* and a reference [x](xxx...x) to a name one byte longer.
NAME_MAX == 255
LongName == [i \in 1..NAME_MAX + 1 |-> "x"]
RefMdLong == Md(<<"x">>, LongName)

\* A file of the tree: absent, or present with its text (the references it
\* holds, one per line, and the #tags it holds), whether it can be read, and
\* its modification time.
Absent == [present |-> FALSE, readable |-> FALSE, refs |-> <<>>, tags |-> {}, mtime |-> 0]
File(readable, refs, mtime) ==
    [present |-> TRUE, readable |-> readable, refs |-> refs, tags |-> {}, mtime |-> mtime]
Tagged(file, tags) == [file EXCEPT !.tags = tags]

\* Path.exists(): every segment is followed from the top; ".." steps back to
\* the parent directory, and only a directory can be followed further.
RECURSIVE ExistsFrom(_, _, _)
ExistsFrom(tree, cur, rest) ==
    IF rest = <<>> THEN TRUE
    ELSE LET next == IF Head(rest) = <<".", ".">> THEN Parent(cur)
                     ELSE Append(cur, Head(rest))
         IN  IF next \in Dirs THEN ExistsFrom(tree, next, Tail(rest))
             ELSE /\ Tail(rest) = <<>>
                  /\ next \in DOMAIN tree
                  /\ tree[next].present

Exists(tree, p) == ExistsFrom(tree, <<>>, p)

\* Path.exists() raises OSError: the walk comes to a name longer than
\* NAME_MAX in a directory (ENAMETOOLONG is not among the errors that
\* Path.exists() turns into False).
RECURSIVE StatRaises(_, _)
StatRaises(cur, rest) ==
    IF rest = <<>> THEN FALSE
    ELSE IF Len(Head(rest)) > NAME_MAX THEN TRUE
    ELSE LET next == IF Head(rest) = <<".", ".">> THEN Parent(cur)
                     ELSE Append(cur, Head(rest))
         IN  next \in Dirs /\ StatRaises(next, Tail(rest))

ExistsRaises(p) == StatRaises(<<>>, p)

\* The files of directory dir matching "*.md", in listing order (Path.glob).
GlobMd(tree, listing, dir) ==
    SelectSeq(listing, LAMBDA f :
        tree[f].present /\ Parent(f) = dir /\ EndsWith(Name(f), DotMd))

\* The files below the root matching "*.md", in listing order (Path.rglob).
RGlobMd(tree, listing) ==
    SelectSeq(listing, LAMBDA f :
        tree[f].present /\ InParents(NotesRoot, f) /\ EndsWith(Name(f), DotMd))

-----------------------------------------------------------------------------
(* MarkdownParser *)

WIKI == "wiki"
MARKDOWN == "markdown"

Link(source, type, text, line) ==
    [source_path |-> source, target_path |-> None, link_type |-> type,
     link_text |-> text, line_number |-> line, is_broken |-> FALSE]

\* A faulty variant of IsExternal: only the http schemes are external.
IsExternalHttp(target) ==
    \/ StartsWith(target, <<"h", "t", "t", "p", ":", "/", "/">>)
    \/ StartsWith(target, <<"h", "t", "t", "p", "s", ":", "/", "/">>)

\* target.startswith(('http://', 'https://', 'ftp://', 'mailto:'))
IsExternal(target) ==
    \/ StartsWith(target, <<"h", "t", "t", "p", ":", "/", "/">>)
    \/ StartsWith(target, <<"h", "t", "t", "p", "s", ":", "/", "/">>)
    \/ StartsWith(target, <<"f", "t", "p", ":", "/", "/">>)
    \/ StartsWith(target, <<"m", "a", "i", "l", "t", "o", ":">>)

\* The target of [[target|display]]: the part before the first "|", stripped.
WikiTarget(inner) ==
    LET i == FirstIndex(inner, "|")
    IN  Strip(IF i = 0 THEN inner ELSE SubSeq(inner, 1, i - 1))

\* _extract_links: the links of the lines from number `line` on.
RECURSIVE ExtractLinks(_, _, _)
ExtractLinks(refs, source, line) ==
    IF line > Len(refs) THEN <<>>
    ELSE LET ref == refs[line]
             here == IF ref.kind = "wiki"
                     THEN <<Link(source, WIKI, WikiTarget(ref.inner), line)>>
                     ELSE IF IsExternal(ref.target) THEN <<>>
                     ELSE <<Link(source, MARKDOWN, ref.target, line)>>
         IN  here \o ExtractLinks(refs, source, line + 1)

\* The first index from i on at which the line holds c, 0 if there is none.
IndexFrom(line, c, i) ==
    IF \E k \in i..Len(line) : line[k] = c
    THEN CHOOSE k \in i..Len(line) : line[k] = c /\ \A m \in i..(k - 1) : line[m] # c
    ELSE 0

\* WIKI_LINK_PATTERN matched at i: the index of its last character, 0 if it
\* does not match. The group [^\]]+ ends before the first "]".
WikiEnd(line, i) ==
    IF i + 1 <= Len(line) /\ line[i] = "[" /\ line[i + 1] = "["
            /\ IndexFrom(line, "]", i + 2) > i + 2
            /\ IndexFrom(line, "]", i + 2) + 1 <= Len(line)
            /\ line[IndexFrom(line, "]", i + 2) + 1] = "]"
    THEN IndexFrom(line, "]", i + 2) + 1
    ELSE 0

\* WIKI_LINK_PATTERN.finditer(line) from i on: group 1 of every match.
RECURSIVE WikiGroups(_, _)
WikiGroups(line, i) ==
    IF i > Len(line) THEN <<>>
    ELSE IF WikiEnd(line, i) # 0
    THEN <<SubSeq(line, i + 2, WikiEnd(line, i) - 2)>> \o WikiGroups(line, WikiEnd(line, i) + 1)
    ELSE WikiGroups(line, i + 1)

\* MD_LINK_PATTERN matched at i: the index of the "]" that ends group 1, 0 if
\* no "](" follows a display of at least one character.
MdClose(line, i) ==
    IF i <= Len(line) /\ line[i] = "["
            /\ IndexFrom(line, "]", i + 1) > i + 1
            /\ IndexFrom(line, "]", i + 1) + 1 <= Len(line)
            /\ line[IndexFrom(line, "]", i + 1) + 1] = "("
    THEN IndexFrom(line, "]", i + 1)
    ELSE 0

\* The index of the ")" that ends the match at i, 0 if it does not match.
MdEnd(line, i) ==
    IF MdClose(line, i) # 0 /\ IndexFrom(line, ")", MdClose(line, i) + 2) > MdClose(line, i) + 2
    THEN IndexFrom(line, ")", MdClose(line, i) + 2)
    ELSE 0

\* MD_LINK_PATTERN.finditer(line) from i on: group 2, the target, of every
\* match.
RECURSIVE MdTargets(_, _)
MdTargets(line, i) ==
    IF i > Len(line) THEN <<>>
    ELSE IF MdEnd(line, i) # 0
    THEN <<SubSeq(line, MdClose(line, i) + 2, MdEnd(line, i) - 1)>>
            \o MdTargets(line, MdEnd(line, i) + 1)
    ELSE MdTargets(line, i + 1)

\* Lines 108-147 for one line: the wiki links, then the markdown links that
\* are not external.
LineLinks(line, source, line_num) ==
    LET wiki == WikiGroups(line, 1)
        md == SelectSeq(MdTargets(line, 1), LAMBDA target : ~IsExternal(target))
    IN  [i \in 1..Len(wiki) |-> Link(source, WIKI, WikiTarget(wiki[i]), line_num)]
        \o [i \in 1..Len(md) |-> Link(source, MARKDOWN, md[i], line_num)]

\* _extract_links on the lines of the content, from line number line_num on.
RECURSIVE _extract_links(_, _, _)
_extract_links(lines, source, line_num) ==
    IF line_num > Len(lines) THEN <<>>
    ELSE LineLinks(lines[line_num], source, line_num)
            \o _extract_links(lines, source, line_num + 1)

\* parse_file raises when the file cannot be read.
CanParse(tree, p) == tree[p].present /\ tree[p].readable

ParseFile(tree, p) ==
    [path |-> p, outgoing_links |-> ExtractLinks(tree[p].refs, p, 1),
     tags |-> tree[p].tags]

-----------------------------------------------------------------------------
(* LinkResolver *)

\* file_index is a dict in insertion order: a sequence of buckets, one per key.
IndexHas(index, key) == \E i \in 1..Len(index) : index[i].key = key

IndexGet(index, key) ==
    index[CHOOSE i \in 1..Len(index) : index[i].key = key].paths

IndexSet(index, key, paths) ==
    IF IndexHas(index, key)
    THEN [i \in 1..Len(index) |->
            IF index[i].key = key THEN [key |-> key, paths |-> paths] ELSE index[i]]
    ELSE Append(index, [key |-> key, paths |-> paths])

IndexDel(index, key) == SelectSeq(index, LAMBDA b : b.key # key)

InSeq(x, seq) == \E i \in 1..Len(seq) : seq[i] = x

\* One iteration of _build_file_index: the file goes to the bucket of its stem
\* and, if that differs, to the bucket of its lowercased stem.
IndexFile(index, file) ==
    LET stem == Stem(file)
        stem_lower == LowerStr(stem)
        exact == IndexSet(index, stem,
                    Append(IF IndexHas(index, stem) THEN IndexGet(index, stem) ELSE <<>>,
                           file))
    IN  IF stem_lower # stem
        THEN IndexSet(exact, stem_lower,
                Append(IF IndexHas(exact, stem_lower)
                       THEN IndexGet(exact, stem_lower) ELSE <<>>, file))
        ELSE exact

RECURSIVE IndexFiles(_, _)
IndexFiles(index, files) ==
    IF files = <<>> THEN index
    ELSE IndexFiles(IF IsHidden(Head(files)) THEN index
                    ELSE IndexFile(index, Head(files)),
                    Tail(files))

_build_file_index(tree, listing) == IndexFiles(<<>>, RGlobMd(tree, listing))

\* A faulty variant of PickCandidate: the first candidate, wherever it is.
PickFirstCandidate(candidates, source_path) == candidates[1]

\* Strategies 2 and 3: the bucket of `key`, a same-directory file preferred.
PickCandidate(candidates, source_path) ==
    LET same_dir == SelectSeq(candidates, LAMBDA c : Parent(c) = Parent(source_path))
    IN  IF same_dir # <<>> THEN same_dir[1] ELSE candidates[1]

\* Strategy 5: the first bucket, in index order, whose key contains the text.
GlobalPartial(index, link_lower) ==
    LET hits == SelectSeq(index, LAMBDA b : Contains(link_lower, LowerStr(b.key)))
    IN  IF hits # <<>> THEN Some(hits[1].paths[1]) ELSE None

_resolve_wiki_link(index, tree, listing, text, source_path) ==
    LET link_text == Strip(text)
        link_md == link_text \o DotMd
        relative_target == Join(Parent(source_path), link_md)
        absolute_target == Join(NotesRoot, link_md)
        link_lower == LowerStr(link_text)
        same_dir_partial ==
            SelectSeq(GlobMd(tree, listing, Parent(source_path)),
                      LAMBDA f : Contains(link_lower, LowerStr(Stem(f))))
    IN  IF InSeq("/", link_text) /\ Exists(tree, relative_target)
            THEN Some(relative_target)
        ELSE IF InSeq("/", link_text) /\ Exists(tree, absolute_target)
            THEN Some(absolute_target)
        ELSE IF IndexHas(index, link_text) /\ IndexGet(index, link_text) # <<>>
            THEN Some(PickCandidate(IndexGet(index, link_text), source_path))
        ELSE IF IndexHas(index, link_lower) /\ IndexGet(index, link_lower) # <<>>
            THEN Some(PickCandidate(IndexGet(index, link_lower), source_path))
        ELSE IF same_dir_partial # <<>>
            THEN Some(same_dir_partial[1])
        ELSE GlobalPartial(index, link_lower)

_resolve_markdown_link(tree, link_text, source_path) ==
    LET source_dir == Parent(source_path)
        target == Join(source_dir, link_text)
        target_with_md == Join(source_dir, link_text \o DotMd)
        target_base == Join(source_dir, SubSeq(link_text, 1, Len(link_text) - 3))
        resolved == Resolve(target)
        resolved_md == WithSuffixMd(resolved)
    IN  IF StartsWith(link_text, <<"#">>) THEN Some(source_path)
        ELSE IF Exists(tree, target) /\ Suffix(target) = DotMd THEN Some(target)
        ELSE IF Exists(tree, target_with_md) THEN Some(target_with_md)
        ELSE IF EndsWith(link_text, DotMd) /\ Exists(tree, target_base)
            THEN Some(target_base)
        ELSE IF InParents(NotesRoot, resolved) \/ resolved = NotesRoot
            THEN IF Exists(tree, resolved) THEN Some(resolved)
                 ELSE IF resolved_md # None /\ Exists(tree, Val(resolved_md))
                     THEN resolved_md
                 ELSE None
        ELSE None

\* A faulty variant of resolve_link: the candidate is not looked up on disk.
ResolveLinkUnchecked(index, tree, listing, link) ==
    LET target_path ==
            IF link.link_type = WIKI
            THEN _resolve_wiki_link(index, tree, listing, link.link_text, link.source_path)
            ELSE _resolve_markdown_link(tree, link.link_text, link.source_path)
    IN  [link EXCEPT !.target_path = target_path, !.is_broken = target_path = None]

resolve_link(index, tree, listing, link) ==
    LET target_path ==
            IF link.link_type = WIKI
            THEN _resolve_wiki_link(index, tree, listing, link.link_text, link.source_path)
            ELSE IF link.link_type = MARKDOWN
            THEN _resolve_markdown_link(tree, link.link_text, link.source_path)
            ELSE None
    IN  [link EXCEPT !.target_path = target_path,
                     !.is_broken = target_path = None \/ ~Exists(tree, Val(target_path))]

\* resolve_link raises OSError: one of the exists() calls outside the try
\* block of _resolve_markdown_link (lines 123, 128, 135) or of
\* _resolve_wiki_link (lines 70, 75) raises.
MarkdownRaises(tree, link_text, source_dir) ==
    /\ ~StartsWith(link_text, <<"#">>)
    /\ \/ ExistsRaises(Join(source_dir, link_text))
       \/ /\ ~(Exists(tree, Join(source_dir, link_text))
                /\ Suffix(Join(source_dir, link_text)) = DotMd)
          /\ \/ ExistsRaises(Join(source_dir, link_text \o DotMd))
             \/ /\ ~Exists(tree, Join(source_dir, link_text \o DotMd))
                /\ EndsWith(link_text, DotMd)
                /\ ExistsRaises(Join(source_dir, SubSeq(link_text, 1, Len(link_text) - 3)))

WikiRaises(tree, link_text, source_dir) ==
    /\ InSeq("/", link_text)
    /\ \/ ExistsRaises(Join(source_dir, link_text \o DotMd))
       \/ /\ ~Exists(tree, Join(source_dir, link_text \o DotMd))
          /\ ExistsRaises(Join(NotesRoot, link_text \o DotMd))

ResolveRaises(tree, link) ==
    IF link.link_type = WIKI
    THEN WikiRaises(tree, Strip(link.link_text), Parent(link.source_path))
    ELSE link.link_type = MARKDOWN
            /\ MarkdownRaises(tree, link.link_text, Parent(link.source_path))

\* The number of links before the first one whose resolution raises.
RECURSIVE ResolvedCount(_, _)
ResolvedCount(tree, links) ==
    IF links = <<>> \/ ResolveRaises(tree, Head(links)) THEN 0
    ELSE 1 + ResolvedCount(tree, Tail(links))

-----------------------------------------------------------------------------
(* GraphBuilder *)

\* Optional[int] = None
NoCluster == -1

\* A float score is the rational num/den; 0.0 is 0/1.
Score(num, den) == [kind |-> "float", num |-> num, den |-> den]
ScoreLess(a, b) == a.num * b.den < b.num * a.den

\* A score computed by nx.pagerank. The graph that is kept records of such a
\* score only that it is one (a PageRank score is positive, so it differs from
\* the default 0.0); its value is used by the hub sort of the same build.
PageRankScore == [kind |-> "pagerank", num |-> 0, den |-> 0]
KeepScore(node) ==
    IF node.centrality_score.kind = "pagerank"
    THEN [node EXCEPT !.centrality_score = PageRankScore]
    ELSE node

GraphNode(note) ==
    [note |-> note, incoming_links |-> <<>>, in_degree |-> 0, out_degree |-> 0,
     cluster_id |-> NoCluster, centrality_score |-> Score(0, 1)]

\* graph.nodes is a dict in insertion order: the sequence of its values, each
\* keyed by its note's path.
Keys(nodes) == [i \in 1..Len(nodes) |-> nodes[i].note.path]
KeySet(nodes) == {nodes[i].note.path : i \in 1..Len(nodes)}
HasKey(nodes, path) == path \in KeySet(nodes)
NodeAt(nodes, path) == nodes[CHOOSE i \in 1..Len(nodes) : nodes[i].note.path = path]

\* link.target_path in nodes (None is never a key)
TargetInNodes(nodes, link) ==
    link.target_path # None /\ HasKey(nodes, Val(link.target_path))

RECURSIVE Concat(_)
Concat(seqs) == IF seqs = <<>> THEN <<>> ELSE Head(seqs) \o Concat(Tail(seqs))

\* parse_file followed by resolve_link on each outgoing link; the resolver
\* fills the Link objects of the note in place. When resolve_link raises, the
\* except clause of the loop over the files ends the work on this file: the
\* note is kept, the links from the raising one on stay as parsed.
ParseAndResolve(index, tree, listing, p) ==
    LET note == ParseFile(tree, p)
    IN  [note EXCEPT !.outgoing_links =
            [i \in 1..Len(note.outgoing_links) |->
                IF i <= ResolvedCount(tree, note.outgoing_links)
                THEN resolve_link(index, tree, listing, note.outgoing_links[i])
                ELSE note.outgoing_links[i]]]

\* The notes of the files that parse, in the order of file_paths.
ParseNotes(index, tree, listing, file_paths) ==
    LET parsed == SelectSeq(file_paths, LAMBDA p : CanParse(tree, p))
    IN  [i \in 1..Len(parsed) |-> ParseAndResolve(index, tree, listing, parsed[i])]

\* notes[note.path] = note: a later note of the same path replaces the earlier
\* one at the earlier one's place.
RECURSIVE DictOfNotes(_, _)
DictOfNotes(dict, notes) ==
    IF notes = <<>> THEN dict
    ELSE LET n == Head(notes)
             put == IF \E i \in 1..Len(dict) : dict[i].path = n.path
                    THEN [i \in 1..Len(dict) |->
                            IF dict[i].path = n.path THEN n ELSE dict[i]]
                    ELSE Append(dict, n)
         IN  DictOfNotes(put, Tail(notes))

\* all_links: the links that were resolved, in the order of their resolution.
AllLinks(tree, notes) ==
    Concat([i \in 1..Len(notes) |->
        SubSeq(notes[i].outgoing_links, 1, ResolvedCount(tree, notes[i].outgoing_links))])

\* A faulty variant of Edges: an edge for every link that is not broken, whether
\* or not its target is a node (add_edge then creates the target).
EdgesToAnyTarget(nodes, links) ==
    {<<links[i].source_path, Val(links[i].target_path)>> :
        i \in {j \in 1..Len(links) : ~links[j].is_broken}}

\* _build_networkx_graph: the edges of the DiGraph.
Edges(nodes, links) ==
    {<<links[i].source_path, Val(links[i].target_path)>> :
        i \in {j \in 1..Len(links) :
                 ~links[j].is_broken /\ TargetInNodes(nodes, links[j])}}

\* The connected component of the undirected projection that holds `set`.
RECURSIVE Reach(_, _)
Reach(set, edges) ==
    LET next == set \cup {e[2] : e \in {d \in edges : d[1] \in set}}
                    \cup {e[1] : e \in {d \in edges : d[2] \in set}}
    IN  IF next = set THEN set ELSE Reach(next, edges)

\* nx.connected_components: one component per not yet seen node, in node order.
RECURSIVE Components(_, _, _)
Components(keys, seen, edges) ==
    IF keys = <<>> THEN <<>>
    ELSE IF Head(keys) \in seen THEN Components(Tail(keys), seen, edges)
    ELSE LET c == Reach({Head(keys)}, edges)
         IN  <<c>> \o Components(Tail(keys), seen \cup c, edges)

_detect_clusters(keys, edges) ==
    SelectSeq(Components(keys, {}, edges), LAMBDA c : Cardinality(c) > 1)

\* A faulty variant of ClusterIdOf: every member of a cluster gets the id 0.
ClusterIdZero(clusters, path) ==
    IF \E i \in 1..Len(clusters) : path \in clusters[i] THEN 0 ELSE NoCluster

\* The cluster id of a path: the index (from 0) of the last cluster holding it.
ClusterIdOf(clusters, path) ==
    LET holding == {i \in 1..Len(clusters) : path \in clusters[i]}
    IN  IF holding = {} THEN NoCluster
        ELSE (CHOOSE i \in holding : \A j \in holding : j <= i) - 1

Max(a, b) == IF a >= b THEN a ELSE b

\* except (nx.NetworkXError, nx.PowerIterationFailedConvergence)
CaughtByCentrality == {"NetworkXError", "PowerIterationFailedConvergence"}

\* nx.pagerank is called on a graph that is not empty, and an exception that
\* is not caught leaves _calculate_centrality and build_graph.
CentralityRaises(nodes, pagerank) ==
    /\ Len(nodes) # 0
    /\ pagerank.outcome \notin CaughtByCentrality \cup {"converged"}

\* _calculate_centrality. pagerank is the outcome of nx.pagerank: its scores
\* ("converged"), one of the two failures the code catches, or another
\* exception, after which nothing is assigned.
_calculate_centrality(nodes, pagerank) ==
    IF Len(nodes) = 0 \/ CentralityRaises(nodes, pagerank) THEN nodes
    ELSE IF pagerank.outcome = "converged"
    THEN [i \in 1..Len(nodes) |->
            [nodes[i] EXCEPT !.centrality_score = pagerank.scores[nodes[i].note.path]]]
    ELSE [i \in 1..Len(nodes) |->
            [nodes[i] EXCEPT !.centrality_score =
                Score(nodes[i].in_degree + nodes[i].out_degree,
                      Max(1, Len(nodes) - 1))]]

TotalDegree(node) == node.in_degree + node.out_degree

\* The sort key (degree, centrality) of a precedes that of b in descending order.
HubKeyGreater(a, b) ==
    \/ TotalDegree(a) > TotalDegree(b)
    \/ /\ TotalDegree(a) = TotalDegree(b)
       /\ ScoreLess(b.centrality_score, a.centrality_score)

\* sorted(..., reverse=True) is stable: x goes after every element that does
\* not come strictly after it.
RECURSIVE SortedDesc(_, _)
SortedDesc(sorted, rest) ==
    IF rest = <<>> THEN sorted
    ELSE LET x == Head(rest)
             k == Cardinality({i \in 1..Len(sorted) : ~HubKeyGreater(x, sorted[i])})
         IN  SortedDesc(SubSeq(sorted, 1, k) \o <<x>> \o SubSeq(sorted, k + 1, Len(sorted)),
                        Tail(rest))

top_n == 10

\* A faulty variant of _find_hub_nodes: the sorted nodes are not cut at top_n.
HubsOfAllNodes(nodes) ==
    Keys(SelectSeq(SortedDesc(<<>>, nodes), LAMBDA n : TotalDegree(n) >= 2))

_find_hub_nodes(nodes) ==
    LET sorted_nodes == SortedDesc(<<>>, nodes)
        top == SubSeq(sorted_nodes, 1, IF Len(sorted_nodes) < top_n
                                       THEN Len(sorted_nodes) ELSE top_n)
    IN  Keys(SelectSeq(top, LAMBDA n : TotalDegree(n) >= 2))

\* A faulty variant of _find_orphan_nodes: every node nothing links to.
OrphansByInDegree(nodes) ==
    Keys(SelectSeq(nodes, LAMBDA n : n.in_degree = 0))

\* A faulty variant of _find_orphan_nodes: broken links are not counted.
OrphansByResolvedLinks(nodes) ==
    Keys(SelectSeq(nodes, LAMBDA n :
        n.in_degree = 0 /\ \A i \in 1..Len(n.note.outgoing_links) :
                                n.note.outgoing_links[i].is_broken))

_find_orphan_nodes(nodes) ==
    Keys(SelectSeq(nodes, LAMBDA n : n.in_degree = 0 /\ n.out_degree = 0))

\* A faulty variant of WithDegrees: in_degree is left as it was.
WithOutDegreeOnly(node) ==
    [node EXCEPT !.out_degree = Len(node.note.outgoing_links)]

\* Lines 63-66 and 232-235: the degree fields are the lengths of the lists.
WithDegrees(node) ==
    [node EXCEPT !.in_degree = Len(node.incoming_links),
                 !.out_degree = Len(node.note.outgoing_links)]

\* Lines 52-61: a link that is broken or whose target is no node goes to
\* broken_links, every other link to its target's incoming_links.
IsBrokenForGraph(nodes, link) == link.is_broken \/ ~TargetInNodes(nodes, link)

\* Lines 83-94: hubs and orphans, and the graph returned.
ReturnGraph(graph_nodes, clusters, broken_links) ==
    [nodes |-> [i \in 1..Len(graph_nodes) |-> KeepScore(graph_nodes[i])],
     clusters |-> clusters,
     hub_nodes |-> _find_hub_nodes(graph_nodes),
     orphan_nodes |-> _find_orphan_nodes(graph_nodes),
     broken_links |-> broken_links]

\* Lines 74-81: the cluster ids, then the centrality scores.
AssignClusters(linked, clusters, broken_links, pagerank) ==
    ReturnGraph(
        _calculate_centrality(
            [i \in 1..Len(linked) |->
                [linked[i] EXCEPT !.cluster_id = ClusterIdOf(clusters, linked[i].note.path)]],
            pagerank),
        clusters, broken_links)

\* Lines 68-72: the clusters of the DiGraph.
AnalyseGraph(linked, all_links, broken_links, pagerank) ==
    AssignClusters(linked, _detect_clusters(Keys(linked), Edges(linked, all_links)),
                   broken_links, pagerank)

\* Lines 52-66: every link goes to broken_links or to its target's
\* incoming_links, then the degrees are set.
ConnectNodes(bare, all_links, pagerank) ==
    AnalyseGraph(
        [i \in 1..Len(bare) |->
            WithDegrees([bare[i] EXCEPT !.incoming_links =
                SelectSeq(all_links, LAMBDA l :
                    ~IsBrokenForGraph(bare, l) /\ Val(l.target_path) = bare[i].note.path)])],
        all_links,
        SelectSeq(all_links, LAMBDA l : IsBrokenForGraph(bare, l)),
        pagerank)

\* Lines 47-50: one node per note.
NodesOfNotes(notes, all_links, pagerank) ==
    ConnectNodes([i \in 1..Len(notes) |-> GraphNode(notes[i])], all_links, pagerank)

\* Lines 30-45: the notes by path and all their links.
CollectNotes(tree, parsed, pagerank) ==
    NodesOfNotes(DictOfNotes(<<>>, parsed), AllLinks(tree, parsed), pagerank)

build_graph(index, tree, listing, pagerank) ==
    CollectNotes(tree,
        ParseNotes(index, tree, listing,
                   SelectSeq(RGlobMd(tree, listing), LAMBDA p : ~IsHidden(p))),
        pagerank)

\* update_index(removed_files=...): the file leaves the bucket of its stem and
\* of its lowercased stem; an emptied bucket is deleted.
\* A faulty variant of UnindexKey: a bucket that became empty stays.
UnindexKeyKeepingEmpty(index, key, file) ==
    IF IndexHas(index, key)
    THEN IndexSet(index, key, SelectSeq(IndexGet(index, key), LAMBDA q : q # file))
    ELSE index

UnindexKey(index, key, file) ==
    IF IndexHas(index, key)
    THEN LET kept == SelectSeq(IndexGet(index, key), LAMBDA q : q # file)
         IN  IF kept = <<>> THEN IndexDel(index, key) ELSE IndexSet(index, key, kept)
    ELSE index

RECURSIVE UnindexFiles(_, _)
UnindexFiles(index, files) ==
    IF files = <<>> THEN index
    ELSE LET file == Head(files)
             exact == UnindexKey(index, Stem(file), file)
         IN  UnindexFiles(UnindexKey(exact, LowerStr(Stem(file)), file), Tail(files))

\* update_index(added_files=...): appended to both buckets unless already there.
IndexKeyOnce(index, key, file) ==
    LET bucket == IF IndexHas(index, key) THEN IndexGet(index, key) ELSE <<>>
    IN  IndexSet(index, key, IF InSeq(file, bucket) THEN bucket ELSE Append(bucket, file))

RECURSIVE IndexFilesOnce(_, _)
IndexFilesOnce(index, files) ==
    IF files = <<>> THEN index
    ELSE LET file == Head(files)
             exact == IndexKeyOnce(index, Stem(file), file)
         IN  IndexFilesOnce(IF LowerStr(Stem(file)) # Stem(file)
                            THEN IndexKeyOnce(exact, LowerStr(Stem(file)), file)
                            ELSE exact,
                            Tail(files))

update_index(index, added_files, removed_files) ==
    IndexFilesOnce(UnindexFiles(index, removed_files), added_files)

\* graph.nodes.update(new_nodes): a known key keeps its place and gets the new
\* node, a new key is appended.
RECURSIVE DictUpdate(_, _)
DictUpdate(nodes, new_nodes) ==
    IF new_nodes = <<>> THEN nodes
    ELSE LET n == Head(new_nodes)
             put == IF HasKey(nodes, n.note.path)
                    THEN [i \in 1..Len(nodes) |->
                            IF nodes[i].note.path = n.note.path THEN n ELSE nodes[i]]
                    ELSE Append(nodes, n)
         IN  DictUpdate(put, Tail(new_nodes))

\* Lines 221-230, one link: the target drops its incoming links from the
\* link's source and gets the link appended.
Relink(nodes, link) ==
    IF ~link.is_broken /\ TargetInNodes(nodes, link)
    THEN [i \in 1..Len(nodes) |->
            IF nodes[i].note.path = Val(link.target_path)
            THEN [nodes[i] EXCEPT !.incoming_links =
                    Append(SelectSeq(nodes[i].incoming_links,
                                     LAMBDA l : l.source_path # link.source_path),
                           link)]
            ELSE nodes[i]]
    ELSE nodes

RECURSIVE RelinkAll(_, _)
RelinkAll(nodes, links) ==
    IF links = <<>> THEN nodes ELSE RelinkAll(Relink(nodes, Head(links)), Tail(links))

\* update_graph: the updated graph and the resolver's index after it.
update_graph(graph, index, tree, listing, changed_files, removed_files) ==
    LET kept == SelectSeq(graph.nodes, LAMBDA n : ~InSeq(n.note.path, removed_files))
        index1 == update_index(index, <<>>, removed_files)
        notes == ParseNotes(index1, tree, listing, changed_files)
        new_nodes == DictUpdate(<<>>, [i \in 1..Len(notes) |-> GraphNode(notes[i])])
        all_new_links == AllLinks(tree, notes)
        merged == DictUpdate(kept, new_nodes)
        index2 == update_index(index1, changed_files, <<>>)
        relinked == RelinkAll(merged, all_new_links)
    IN  [graph |-> [graph EXCEPT !.nodes =
                        [i \in 1..Len(relinked) |-> WithDegrees(relinked[i])]],
         index |-> index2]

-----------------------------------------------------------------------------
(* GraphAnalyzer *)

\* score *= num/den
Times(score, num, den) == Score(score.num * num, score.den * den)

Item(path, type, reason, score) ==
    [path |-> path, type |-> type, reason |-> reason, score |-> score]

\* One item per outgoing link whose target is a node, then one per incoming
\* link.
_find_direct_connections(g, node) ==
    LET out == SelectSeq(node.note.outgoing_links,
                         LAMBDA l : ~l.is_broken /\ TargetInNodes(g.nodes, l))
    IN  [i \in 1..Len(out) |->
            Item(Val(out[i].target_path), "direct", "this links to", Score(5, 1))]
        \o [i \in 1..Len(node.incoming_links) |->
            Item(node.incoming_links[i].source_path, "direct", "links to this", Score(5, 1))]

\* One item per other member of the node's cluster; member_order is the order
\* in which the cluster, a set, is iterated.
_find_cluster_members(g, node, member_order) ==
    IF node.cluster_id = NoCluster THEN <<>>
    ELSE LET others == SelectSeq(member_order, LAMBDA m : m # node.note.path)
         IN  [i \in 1..Len(others) |->
                Item(others[i], "cluster", <<"same cluster #", node.cluster_id>>, Score(3, 1))]

\* {link.target_path for link in outgoing_links if not link.is_broken}
TargetsOf(node) ==
    {node.note.outgoing_links[i].target_path :
        i \in {j \in 1..Len(node.note.outgoing_links) : ~node.note.outgoing_links[j].is_broken}}

\* The other node is similar: it shares a target, and the Jaccard similarity
\* intersection / union is at least 0.2.
IsSimilar(node, other) ==
    /\ other.note.path # node.note.path
    /\ TargetsOf(other) # {}
    /\ Cardinality(TargetsOf(node) \cap TargetsOf(other)) > 0
    /\ 5 * Cardinality(TargetsOf(node) \cap TargetsOf(other))
            >= Cardinality(TargetsOf(node) \cup TargetsOf(other))

_find_structurally_similar(g, node) ==
    IF TargetsOf(node) = {} THEN <<>>
    ELSE LET similar == SelectSeq(g.nodes, LAMBDA other : IsSimilar(node, other))
         IN  [i \in 1..Len(similar) |->
                Item(similar[i].note.path, "similar",
                     <<Cardinality(TargetsOf(node) \cap TargetsOf(similar[i])), " shared links">>,
                     Score(2 * Cardinality(TargetsOf(node) \cap TargetsOf(similar[i])),
                           Cardinality(TargetsOf(node) \cup TargetsOf(similar[i]))))]

_find_tag_similar(g, node) ==
    IF node.note.tags = {} THEN <<>>
    ELSE LET similar == SelectSeq(g.nodes, LAMBDA other :
                            /\ other.note.path # node.note.path
                            /\ node.note.tags \cap other.note.tags # {})
         IN  [i \in 1..Len(similar) |->
                Item(similar[i].note.path, "tags",
                     <<"shared tags: ", node.note.tags \cap similar[i].note.tags>>,
                     Score(3 * Cardinality(node.note.tags \cap similar[i].note.tags), 2))]

\* Lines 52-68: the candidates of the four signals, in this order.
RelatedCandidates(g, node, member_order) ==
    _find_direct_connections(g, node)
    \o _find_cluster_members(g, node, member_order)
    \o _find_structurally_similar(g, node)
    \o _find_tag_similar(g, node)

\* A faulty variant of UniqueRelated: the paths seen are not recorded, so
\* only the original note is left out.
UniqueRelatedUnseen(seen, related) ==
    SelectSeq(related, LAMBDA item : item.path \notin seen)

\* Lines 70-76: the first item of every path not seen yet.
RECURSIVE UniqueRelated(_, _)
UniqueRelated(seen, related) ==
    IF related = <<>> THEN <<>>
    ELSE IF Head(related).path \in seen THEN UniqueRelated(seen, Tail(related))
    ELSE <<Head(related)>> \o UniqueRelated(seen \cup {Head(related).path}, Tail(related))

\* The boosts of one item: a hub, more than 5 connections, the same directory.
BoostItem(g, item, node) ==
    IF ~HasKey(g.nodes, item.path) THEN item
    ELSE [item EXCEPT !.score =
            Times(Times(Times(@,
                IF InSeq(item.path, g.hub_nodes) THEN 13 ELSE 10, 10),
                IF TotalDegree(NodeAt(g.nodes, item.path)) > 5 THEN 12 ELSE 10, 10),
                IF Parent(node.note.path) = Parent(item.path) THEN 11 ELSE 10, 10)]

_score_related_notes(g, related, node) ==
    [i \in 1..Len(related) |-> BoostItem(g, related[i], node)]

\* A faulty variant of SortedByScore: the items are left as they come.
Unsorted(sorted, rest) == sorted \o rest

\* sorted(key=score, reverse=True) is stable: an item goes after every item
\* whose score is not lower than its own.
RECURSIVE SortedByScore(_, _)
SortedByScore(sorted, rest) ==
    IF rest = <<>> THEN sorted
    ELSE LET k == Cardinality({i \in 1..Len(sorted) :
                                ~ScoreLess(sorted[i].score, Head(rest).score)})
         IN  SortedByScore(SubSeq(sorted, 1, k) \o <<Head(rest)>>
                                \o SubSeq(sorted, k + 1, Len(sorted)),
                           Tail(rest))

\* A faulty variant of FirstItems: nothing is cut off.
AllItems(items, max_results) == items

FirstItems(items, max_results) ==
    SubSeq(items, 1, IF Len(items) < max_results THEN Len(items) ELSE max_results)

\* find_related_notes. A cluster id that is no index of graph.clusters makes
\* the lookup of the cluster raise.
RelatedRaises(g, note_path) ==
    /\ HasKey(g.nodes, note_path)
    /\ NodeAt(g.nodes, note_path).cluster_id # NoCluster
    /\ NodeAt(g.nodes, note_path).cluster_id + 1 \notin 1..Len(g.clusters)

find_related_notes(g, note_path, max_results, member_order) ==
    IF ~HasKey(g.nodes, note_path) THEN <<>>
    ELSE FirstItems(
            SortedByScore(<<>>,
                _score_related_notes(g,
                    UniqueRelated({note_path},
                        RelatedCandidates(g, NodeAt(g.nodes, note_path), member_order)),
                    NodeAt(g.nodes, note_path))),
            max_results)

\* GraphAnalyzer._build_networkx_graph: the edges of self.nx_graph; its nodes
\* are the keys of graph.nodes.
AnalyzerEdges(g) ==
    Edges(g.nodes, Concat([i \in 1..Len(g.nodes) |-> g.nodes[i].note.outgoing_links]))

\* The number of hops of a shortest directed path from the frontier to the
\* target, d hops having been made; -1 when there is none (NetworkXNoPath).
RECURSIVE Hops(_, _, _, _, _)
Hops(edges, frontier, seen, target, d) ==
    IF target \in frontier THEN d
    ELSE IF {e[2] : e \in {x \in edges : x[1] \in frontier}} \subseteq seen THEN -1
    ELSE Hops(edges, {e[2] : e \in {x \in edges : x[1] \in frontier}} \ seen,
              seen \cup {e[2] : e \in {x \in edges : x[1] \in frontier}}, target, d + 1)

\* The directed walks that extend one of `paths` by d edges.
RECURSIVE Extended(_, _, _)
Extended(edges, paths, d) ==
    IF d = 0 THEN paths
    ELSE Extended(edges,
                  {Append(p, e[2]) : p \in paths, e \in edges} \cap
                      {Append(e[1], e[2][2]) :
                          e \in {x \in paths \X edges : x[1][Len(x[1])] = x[2][1]}},
                  d - 1)

\* A faulty variant of all_shortest_paths: every walk of up to three hops.
AllWalks(edges, source, target) ==
    {p \in UNION {Extended(edges, {<<source>>}, d) : d \in 0..3} : p[Len(p)] = target}

\* nx.all_shortest_paths(G, source, target): every path of the least number
\* of hops; empty stands for NetworkXNoPath.
all_shortest_paths(edges, source, target) ==
    IF Hops(edges, {source}, {source}, target, 0) = -1 THEN {}
    ELSE {p \in Extended(edges, {<<source>>}, Hops(edges, {source}, {source}, target, 0)) :
            p[Len(p)] = target}

\* paths[:max_paths]
FirstPaths(paths, max_paths) ==
    IF max_paths >= 0
    THEN SubSeq(paths, 1, IF Len(paths) < max_paths THEN Len(paths) ELSE max_paths)
    ELSE SubSeq(paths, 1, Len(paths) + max_paths)

\* find_shortest_paths; generated is the list of the shortest paths in the
\* order in which the generator gives them.
find_shortest_paths(g, source, target, max_paths, generated) ==
    IF ~HasKey(g.nodes, source) \/ ~HasKey(g.nodes, target) THEN <<>>
    ELSE FirstPaths(generated, max_paths)

\* sum(len(node.note.outgoing_links) for node in self.graph.nodes.values())
RECURSIVE SumOutgoing(_)
SumOutgoing(nodes) ==
    IF nodes = <<>> THEN 0
    ELSE Len(Head(nodes).note.outgoing_links) + SumOutgoing(Tail(nodes))

get_graph_statistics(g) ==
    [total_nodes |-> Len(g.nodes),
     total_edges |-> SumOutgoing(g.nodes),
     avg_degree |-> IF Len(g.nodes) > 0 THEN Score(SumOutgoing(g.nodes), Len(g.nodes))
                    ELSE Score(0, 1),
     density |-> IF Len(g.nodes) > 1
                 THEN Score(SumOutgoing(g.nodes), Len(g.nodes) * (Len(g.nodes) - 1))
                 ELSE Score(0, 1),
     num_clusters |-> Len(g.clusters),
     num_hubs |-> Len(g.hub_nodes),
     num_orphans |-> Len(g.orphan_nodes),
     num_broken_links |-> Len(g.broken_links)]

-----------------------------------------------------------------------------
(* SearchEngine *)

\* A SearchResult: match_type is kept as the set of strategy names that the
\* code joins with "+" in sorted order.
SearchResult(note_path, score, match_type) ==
    [note_path |-> note_path, score |-> score, match_types |-> {match_type}]

\* Path.parts of an absolute path: the root "/" and the segments.
Parts(p) == <<<<"/">>>> \o p

\* search_text: text_matches[path] is the number of matches regex.finditer
\* finds in the file's content; a file that is gone is skipped.
search_text(g, tree, text_matches) ==
    LET hit == SelectSeq(g.nodes, LAMBDA n :
                    tree[n.note.path].present /\ text_matches[n.note.path] > 0)
    IN  [i \in 1..Len(hit) |->
            SearchResult(hit[i].note.path, Score(text_matches[hit[i].note.path], 1), "text")]

\* 10.0 for a query that is the stem, 5.0 for one that is part of it.
FilenameScore(query_lower, path) ==
    IF ~Contains(query_lower, LowerStr(Stem(path))) THEN 0
    ELSE IF query_lower = LowerStr(Stem(path)) THEN 10 ELSE 5

\* 1.0 for every part of the path that holds the query.
PathScore(query_lower, path) ==
    Cardinality({i \in 1..Len(Parts(path)) : Contains(query_lower, LowerStr(Parts(path)[i]))})

search_paths(g, query) ==
    LET hit == SelectSeq(g.nodes, LAMBDA n :
                    FilenameScore(LowerStr(query), n.note.path)
                        + PathScore(LowerStr(query), n.note.path) > 0)
    IN  [i \in 1..Len(hit) |->
            SearchResult(hit[i].note.path,
                         Score(FilenameScore(LowerStr(query), hit[i].note.path)
                                + PathScore(LowerStr(query), hit[i].note.path), 1),
                         "path")]

\* The query in lower case without a leading "#".
TagQuery(query) ==
    IF StartsWith(LowerStr(query), <<"#">>) THEN Tail(LowerStr(query)) ELSE LowerStr(query)

\* 3.0 for every tag that is the query, 1.0 for every other tag holding it.
TagScore(query_lower, tags) ==
    3 * Cardinality({t \in tags : query_lower = LowerStr(t)})
    + Cardinality({t \in tags : Contains(query_lower, LowerStr(t)) /\ query_lower # LowerStr(t)})

search_tags(g, query) ==
    LET hit == SelectSeq(g.nodes, LAMBDA n :
                    \E t \in n.note.tags : Contains(TagQuery(query), LowerStr(t)))
    IN  [i \in 1..Len(hit) |->
            SearchResult(hit[i].note.path,
                         Score(TagScore(TagQuery(query), hit[i].note.tags), 1), "tag")]

\* The title of a note without headings is the stem of its file.
Title(note) == Stem(note.path)

search_headings(g, query) ==
    LET hit == SelectSeq(g.nodes, LAMBDA n :
                    Contains(LowerStr(query), LowerStr(Title(n.note))))
    IN  [i \in 1..Len(hit) |->
            SearchResult(hit[i].note.path,
                         Score(IF LowerStr(query) = LowerStr(Title(hit[i].note)) THEN 5 ELSE 2, 1),
                         "heading")]

\* Lines 19-35: the results of the four strategies, in this order.
StrategyResults(g, tree, query, text_matches) ==
    search_text(g, tree, text_matches) \o search_paths(g, query)
        \o search_tags(g, query) \o search_headings(g, query)

\* Lines 244-249: the paths in the order of their first result.
RECURSIVE GroupedPaths(_, _)
GroupedPaths(paths, results) ==
    IF results = <<>> THEN paths
    ELSE GroupedPaths(IF InSeq(Head(results).note_path, paths) THEN paths
                      ELSE Append(paths, Head(results).note_path),
                      Tail(results))

\* sum(r.score for r in path_results): the scores of the strategies are whole.
RECURSIVE SumScores(_)
SumScores(path_results) ==
    IF path_results = <<>> THEN 0
    ELSE Head(path_results).score.num + SumScores(Tail(path_results))

MatchTypes(path_results) ==
    UNION {path_results[i].match_types : i \in 1..Len(path_results)}

\* A faulty variant of MergeOne: the scores are added and never boosted.
MergeOneUnboosted(path, path_results) ==
    IF Len(path_results) = 1 THEN path_results[1]
    ELSE [note_path |-> path,
          score |-> Score(SumScores(path_results), 1),
          match_types |-> MatchTypes(path_results)]

\* Lines 254-273: the one result of a path stays; several are added up, and
\* boosted by 1.5 when they are of more than one match type.
MergeOne(path, path_results) ==
    IF Len(path_results) = 1 THEN path_results[1]
    ELSE [note_path |-> path,
          score |-> IF Cardinality(MatchTypes(path_results)) > 1
                    THEN Times(Score(SumScores(path_results), 1), 3, 2)
                    ELSE Score(SumScores(path_results), 1),
          match_types |-> MatchTypes(path_results)]

_merge_results(results) ==
    LET paths == GroupedPaths(<<>>, results)
    IN  [i \in 1..Len(paths) |->
            MergeOne(paths[i], SelectSeq(results, LAMBDA r : r.note_path = paths[i]))]

\* search: merged, sorted by score (stable, highest first), cut at limit.
search(g, tree, query, limit, text_matches) ==
    FirstItems(SortedByScore(<<>>, _merge_results(StrategyResults(g, tree, query, text_matches))),
               limit)

-----------------------------------------------------------------------------
(* CacheManager *)

CACHE_VERSION == <<"1", ".", "0">>

\* A written file holds all the bytes of a document, some of them, or none.
AllBytes == "all"
SomeBytes == "some"
NoBytes == "none"

\* pickle.dump and json.dump: the document, and how much of it reached the file.
PickleDump(graph, bytes) == [format |-> "pickle", payload |-> graph, bytes |-> bytes]
JsonDump(metadata, bytes) == [format |-> "json", payload |-> metadata, bytes |-> bytes]

\* pickle.load: a whole pickle gives its object back; no bytes at all end the
\* input (EOFError), a cut pickle is rejected (UnpicklingError).
PickleLoad(blob) ==
    IF blob.bytes = AllBytes THEN [raised |-> "", value |-> Some(blob.payload)]
    ELSE IF blob.bytes = NoBytes THEN [raised |-> "EOFError", value |-> None]
    ELSE [raised |-> "UnpicklingError", value |-> None]

\* json.load: an empty or cut document is rejected (JSONDecodeError).
JsonLoad(doc) ==
    IF doc.bytes = AllBytes THEN [raised |-> "", value |-> Some(doc.payload)]
    ELSE [raised |-> "JSONDecodeError", value |-> None]

\* The exception classes an exception is an instance of.
Bases(exc) ==
    CASE exc = "UnpicklingError" -> {"UnpicklingError", "PickleError", "Exception"}
      [] exc = "PicklingError" -> {"PicklingError", "PickleError", "Exception"}
      [] exc = "JSONDecodeError" -> {"JSONDecodeError", "ValueError", "Exception"}
      [] exc = "FileNotFoundError" -> {"FileNotFoundError", "OSError", "Exception"}
      [] exc = "OSError" -> {"OSError", "Exception"}
      [] OTHER -> {exc, "Exception"}

\* `except classes`: the clause catches the exception.
Catches(classes, exc) == Bases(exc) \cap classes # {}

\* The names the json module defines, as far as the code refers to them.
JsonModule == {"load", "dump", "JSONDecodeError"}

\* md_file.relative_to(self.notes_root)
RelativeToRoot(p) == SubSeq(p, Len(NotesRoot) + 1, Len(p))

\* dict[key] = value on a dict kept as a sequence of entries.
TimestampSet(dict, key, value) ==
    IF \E i \in 1..Len(dict) : dict[i].path = key
    THEN [i \in 1..Len(dict) |->
            IF dict[i].path = key THEN [path |-> key, mtime |-> value] ELSE dict[i]]
    ELSE Append(dict, [path |-> key, mtime |-> value])

RECURSIVE TimestampsOf(_, _, _)
TimestampsOf(tree, files, dict) ==
    IF files = <<>> THEN dict
    ELSE TimestampsOf(tree, Tail(files),
            IF IsHidden(Head(files)) THEN dict
            ELSE TimestampSet(dict, RelativeToRoot(Head(files)), tree[Head(files)].mtime))

_get_file_timestamps(tree, listing) == TimestampsOf(tree, RGlobMd(tree, listing), <<>>)

TimestampKeys(dict) == {dict[i].path : i \in 1..Len(dict)}

\* dict.get(key): the value, None without the key.
TimestampGet(dict, key) ==
    IF key \in TimestampKeys(dict)
    THEN Some((CHOOSE e \in {dict[i] : i \in 1..Len(dict)} : e.path = key).mtime)
    ELSE None

\* A faulty variant of _is_cache_valid: the key sets are not compared.
CachedTimestampsUnchanged(metadata, tree, listing) ==
    LET cached_timestamps == metadata.file_timestamps
        current_timestamps == _get_file_timestamps(tree, listing)
    IN  \A i \in 1..Len(cached_timestamps) :
            TimestampGet(current_timestamps, cached_timestamps[i].path)
                = Some(cached_timestamps[i].mtime)

_is_cache_valid(metadata, tree, listing) ==
    LET cached_timestamps == metadata.file_timestamps
        current_timestamps == _get_file_timestamps(tree, listing)
    IN  /\ TimestampKeys(cached_timestamps) = TimestampKeys(current_timestamps)
        /\ \A i \in 1..Len(cached_timestamps) :
            TimestampGet(current_timestamps, cached_timestamps[i].path)
                = Some(cached_timestamps[i].mtime)

\* The clause `except (FileNotFoundError, json.JSONDecodeError,
\* pickle.PickleError, KeyError)` of load_cache.
LoadCacheCatches == {"FileNotFoundError", "JSONDecodeError", "PickleError", "KeyError"}

\* What load_cache does with an exception raised in its try block.
LoadCacheExcept(exc) ==
    IF Catches(LoadCacheCatches, exc)
    THEN [result |-> None, raised |-> ""]
    ELSE [result |-> None, raised |-> exc]

\* load_cache: the graph it returns (None for no usable cache) and the
\* exception it lets out ("" for none).
load_cache(blob_file, meta_file, tree, listing) ==
    IF blob_file = None \/ meta_file = None THEN [result |-> None, raised |-> ""]
    ELSE LET read == JsonLoad(Val(meta_file))
         IN  IF read.raised # "" THEN LoadCacheExcept(read.raised)
             ELSE IF Val(read.value).version # CACHE_VERSION
             THEN [result |-> None, raised |-> ""]
             ELSE IF ~_is_cache_valid(Val(read.value), tree, listing)
             THEN [result |-> None, raised |-> ""]
             ELSE LET unpickled == PickleLoad(Val(blob_file))
                  IN  IF unpickled.raised # "" THEN LoadCacheExcept(unpickled.raised)
                      ELSE [result |-> unpickled.value, raised |-> ""]

\* clear_cache: both files are unlinked.
clear_cache(blob_file, meta_file) == [cache_file |-> None, metadata_file |-> None]

\* A faulty variant of SaveMetadata: the record carries another version.
SaveMetadataUnversioned(tree, listing) ==
    [version |-> <<>>, file_timestamps |-> _get_file_timestamps(tree, listing)]

\* Lines 60-66: the metadata record, as far as load_cache reads it.
SaveMetadata(tree, listing) ==
    [version |-> CACHE_VERSION, file_timestamps |-> _get_file_timestamps(tree, listing)]

\* A save goes through, or a write fails with OSError: opening a file (before
\* it is truncated) or writing it (after some or none of the bytes).
NoFault == [at |-> "nowhere", exc |-> "", bytes |-> AllBytes]
SaveFaults ==
    {NoFault}
    \cup {[at |-> a, exc |-> "OSError", bytes |-> NoBytes] :
            a \in {"open cache_file", "open metadata_file"}}
    \cup {[at |-> "dump cache_file", exc |-> "OSError", bytes |-> b] :
            b \in {NoBytes, SomeBytes}}
    \cup {[at |-> "dump metadata_file", exc |-> "OSError", bytes |-> SomeBytes]}

\* Lines 76-79: matching the exception evaluates the tuple (IOError,
\* pickle.PickleError, json.JSONEncodeError), and a name the json module does
\* not define raises AttributeError in its place; otherwise a caught exception
\* clears the cache and is raised again.
SaveCacheExcept(files, exc) ==
    IF "JSONEncodeError" \notin JsonModule
    THEN [cache_file |-> files.cache_file, metadata_file |-> files.metadata_file,
          raised |-> "AttributeError"]
    ELSE IF Catches({"OSError", "PickleError", "JSONEncodeError"}, exc)
    THEN [cache_file |-> None, metadata_file |-> None, raised |-> exc]
    ELSE [cache_file |-> files.cache_file, metadata_file |-> files.metadata_file,
          raised |-> exc]

\* save_cache: the two files after it and the exception it lets out.
save_cache(blob_file, meta_file, g, tree, listing, fault) ==
    LET metadata == SaveMetadata(tree, listing)
        before == [cache_file |-> blob_file, metadata_file |-> meta_file]
    IN  IF fault.at = "open cache_file" THEN SaveCacheExcept(before, fault.exc)
        ELSE IF fault.at = "dump cache_file"
        THEN SaveCacheExcept([before EXCEPT !.cache_file = Some(PickleDump(g, fault.bytes))],
                             fault.exc)
        ELSE LET pickled == [before EXCEPT !.cache_file = Some(PickleDump(g, AllBytes))]
             IN  IF fault.at = "open metadata_file" THEN SaveCacheExcept(pickled, fault.exc)
                 ELSE IF fault.at = "dump metadata_file"
                 THEN SaveCacheExcept(
                        [pickled EXCEPT !.metadata_file = Some(JsonDump(metadata, fault.bytes))],
                        fault.exc)
                 ELSE [cache_file |-> pickled.cache_file,
                       metadata_file |-> Some(JsonDump(metadata, AllBytes)),
                       raised |-> ""]

-----------------------------------------------------------------------------
(* Bounds *)

\* Links in the whole tree, edits of the tree, update_graph calls, and the
\* latest modification time of a file.
MaxLinks == 2
MaxEdits == 1
MaxUpdates == 1
MaxTime == 1

-----------------------------------------------------------------------------
(* State *)

VARIABLES
    fs,             \* the tree on disk: FilePaths -> file
    file_index,     \* LinkResolver.file_index of the builder, None before it exists
    graph,          \* the KnowledgeGraph the builder returned last, None before
    op,             \* the operation that ran last
    raised,         \* the exception the last operation raised, "" if none
    edits,          \* edits of the tree so far
    updates,        \* update_graph calls so far
    removed_so_far, \* the paths update_graph was told to remove so far
    cache_file,     \* the pickled graph on disk, None while there is no file
    metadata_file,  \* the JSON metadata on disk, None while there is no file
    loaded,         \* what the last load_cache returned
    saved_fs,       \* the tree as the last save_cache that went through saw it
    resolved,       \* the last call of _resolve_wiki_link: its arguments and result
    related,        \* the last call of find_related_notes: its arguments and result
    found,          \* the last call of search: its arguments and result
    index_call,     \* the last call of update_index: its arguments
    parse_call,     \* the last call of _extract_links: its argument and result
    update_call,    \* the last call of update_graph: its arguments
    returned        \* the last value a query on its own returned, with its arguments

cache_vars == <<cache_file, metadata_file, loaded, saved_fs>>
query_vars == <<resolved, related, found, index_call, parse_call, update_call, returned>>

vars == <<fs, file_index, graph, op, raised, edits, updates, removed_so_far,
          cache_file, metadata_file, loaded, saved_fs, resolved, related, found, index_call,
          parse_call, update_call, returned>>

\* Sequences over `set` of length at most n.
RECURSIVE SeqsUpTo(_, _)
SeqsUpTo(set, n) ==
    IF n = 0 THEN {<<>>}
    ELSE LET shorter == SeqsUpTo(set, n - 1)
         IN  shorter \cup {Append(q, x) : q \in shorter, x \in set}

IsDistinct(q) == \A i, j \in 1..Len(q) : i # j => q[i] # q[j]

\* The orders in which a walk of the tree (Path.rglob) may list its files: the
\* entries of one directory come in any order, the files of a directory
\* before those of its sub-directories.
Listings(tree) ==
    LET present == {f \in DOMAIN tree : tree[f].present}
    IN  {q \in SeqsUpTo(present, Cardinality(present)) :
            /\ Len(q) = Cardinality(present)
            /\ IsDistinct(q)
            /\ \A i, j \in 1..Len(q) :
                    InParents(Parent(q[i]), Parent(q[j])) => i < j}

\* The argument lists of update_graph: at most one path each.
Batches == SeqsUpTo(FilePaths, 1)

Texts == SeqsUpTo(Refs, MaxLinks)

RECURSIVE SumLinks(_, _)
SumLinks(tree, files) ==
    IF files = {} THEN 0
    ELSE LET f == CHOOSE x \in files : TRUE
         IN  Len(tree[f].refs) + SumLinks(tree, files \ {f})

TotalLinks(tree) == SumLinks(tree, FilePaths)

\* Files as they may be found: an unreadable file has no text.
Written == {File(TRUE, x, 0) : x \in Texts} \cup {File(FALSE, <<>>, 0)}

Trees == {t \in [FilePaths -> {Absent} \cup Written] : TotalLinks(t) <= MaxLinks}

\* One edit of a file: it is rewritten empty or unreadable, or one reference
\* is added at its end.
Rewrites(file, t) ==
    {File(TRUE, <<>>, t), File(FALSE, <<>>, t)}
    \cup {File(TRUE, Append(file.refs, ref), t) : ref \in IF file.readable THEN Refs ELSE {}}

\* The outcomes of nx.pagerank over the nodes `keys`: scores 0/1 or 1/1
\* for each node, or a failure.
PageRankOutcomes(keys) ==
    {[outcome |-> "converged", scores |-> sc] :
        sc \in [keys -> {[kind |-> "pagerank", num |-> k, den |-> 1] : k \in {0, 1}}]}
    \cup {[outcome |-> o, scores |-> [k \in keys |-> PageRankScore]] :
            o \in {"NetworkXError", "PowerIterationFailedConvergence"}}

Start ==
    /\ file_index = None
    /\ graph = None
    /\ op = "init"
    /\ raised = ""
    /\ edits = 0
    /\ updates = 0
    /\ removed_so_far = {}
    /\ loaded = None
    /\ saved_fs = None
    /\ resolved = None
    /\ related = None
    /\ found = None
    /\ index_call = None
    /\ parse_call = None
    /\ update_call = None
    /\ returned = None

NoCache == cache_file = None /\ metadata_file = None

\* Any tree within the bounds, a reference to an over-long name among its
\* references.
BuildTrees ==
    {t \in [FilePaths -> {Absent, File(FALSE, <<>>, 0)}
                \cup {File(TRUE, x, 0) : x \in SeqsUpTo(Refs \cup {RefMdLong}, MaxLinks)}] :
        TotalLinks(t) <= MaxLinks}

InitBuild == fs \in BuildTrees /\ Start /\ NoCache

\* Any tree within the bounds whose files are all there and readable.
Init == fs \in {t \in Trees : \A f \in FilePaths : t[f].readable} /\ Start /\ NoCache

-----------------------------------------------------------------------------
(* The environment edits the tree *)

WriteFile(f, file) ==
    /\ edits < MaxEdits
    /\ LET tree == [fs EXCEPT ![f] = file]
       IN  /\ TotalLinks(tree) <= MaxLinks
           /\ tree # fs
           /\ fs' = tree
    /\ edits' = edits + 1
    /\ op' = "write"
    /\ UNCHANGED query_vars
    /\ raised' = ""
    /\ UNCHANGED <<file_index, graph, updates, removed_so_far>>
    /\ UNCHANGED cache_vars

RemoveFile(f) ==
    /\ edits < MaxEdits
    /\ fs[f].present
    /\ fs' = [fs EXCEPT ![f] = Absent]
    /\ edits' = edits + 1
    /\ op' = "remove"
    /\ UNCHANGED query_vars
    /\ raised' = ""
    /\ UNCHANGED <<file_index, graph, updates, removed_so_far>>
    /\ UNCHANGED cache_vars

-----------------------------------------------------------------------------
(* GraphBuilder's operations *)

\* GraphBuilder(notes_root): LinkResolver.__init__ scans the tree.
NewBuilder(listing) ==
    /\ file_index = None
    /\ file_index' = Some(_build_file_index(fs, listing))
    /\ op' = "new_builder"
    /\ UNCHANGED query_vars
    /\ raised' = ""
    /\ UNCHANGED <<fs, graph, edits, updates, removed_so_far>>
    /\ UNCHANGED cache_vars

BuildGraph(listing, pagerank) ==
    /\ file_index # None
    /\ graph = None
    /\ IF CentralityRaises(build_graph(Val(file_index), fs, listing, pagerank).nodes, pagerank)
       THEN /\ raised' = pagerank.outcome
            /\ UNCHANGED graph
       ELSE /\ raised' = ""
            /\ graph' = Some(build_graph(Val(file_index), fs, listing, pagerank))
    /\ op' = "build_graph"
    /\ UNCHANGED query_vars
    /\ UNCHANGED <<fs, file_index, edits, updates, removed_so_far>>
    /\ UNCHANGED cache_vars

\* update_graph(graph, changed_files, removed_files), the call remembered.
UpdateGraphCall(listing, changed_files, removed_files) ==
    /\ file_index # None
    /\ graph # None
    /\ updates < MaxUpdates
    /\ LET r == update_graph(Val(graph), Val(file_index), fs, listing,
                             changed_files, removed_files)
       IN  /\ graph' = Some(r.graph)
           /\ file_index' = Some(r.index)
    /\ updates' = updates + 1
    /\ removed_so_far' = removed_so_far \cup {removed_files[i] : i \in 1..Len(removed_files)}
    /\ op' = "update_graph"
    /\ update_call' = Some([changed_files |-> changed_files, removed_files |-> removed_files])
    /\ UNCHANGED <<resolved, related, found, index_call, parse_call, returned>>
    /\ raised' = ""
    /\ UNCHANGED <<fs, edits>>
    /\ UNCHANGED cache_vars

UpdateGraph(listing, changed_files, removed_files) ==
    /\ file_index # None
    /\ graph # None
    /\ updates < MaxUpdates
    /\ LET r == update_graph(Val(graph), Val(file_index), fs, listing,
                             changed_files, removed_files)
       IN  /\ graph' = Some(r.graph)
           /\ file_index' = Some(r.index)
    /\ updates' = updates + 1
    /\ removed_so_far' = removed_so_far \cup {removed_files[i] : i \in 1..Len(removed_files)}
    /\ op' = "update_graph"
    /\ UNCHANGED query_vars
    /\ raised' = ""
    /\ UNCHANGED <<fs, edits>>
    /\ UNCHANGED cache_vars

Parsed(tree) == {f \in FilePaths : CanParse(tree, f) /\ ~IsHidden(f)}

Construct ==
    \/ file_index = None /\ \E listing \in Listings(fs) : NewBuilder(listing)
    \/ /\ file_index # None
       /\ graph = None
       /\ \E listing \in Listings(fs), pagerank \in PageRankOutcomes(Parsed(fs)) :
                BuildGraph(listing, pagerank)

NextBuild == Construct

SpecBuild == InitBuild /\ [][NextBuild]_vars

\* nx.pagerank fails in a way _calculate_centrality does not catch: networkx
\* 3 computes PageRank with scipy, which setup.py does not require.
PageRankUnavailable(keys) ==
    {[outcome |-> "ModuleNotFoundError", scores |-> [k \in keys |-> PageRankScore]]}

\* build_graph with a PageRank that fails, in any way.
NextCentrality ==
    \/ file_index = None /\ \E listing \in Listings(fs) : NewBuilder(listing)
    \/ /\ file_index # None
       /\ graph = None
       /\ \E listing \in Listings(fs),
             pagerank \in {o \in PageRankOutcomes(Parsed(fs)) : o.outcome # "converged"}
                            \cup PageRankUnavailable(Parsed(fs)) :
                BuildGraph(listing, pagerank)

SpecCentrality == InitBuild /\ [][NextCentrality]_vars

Next ==
    \/ Construct
    \/ /\ graph # None
       /\ edits < MaxEdits
       /\ \E f \in FilePaths : \E file \in Rewrites(fs[f], 0) : WriteFile(f, file)
    \/ /\ graph # None
       /\ edits < MaxEdits
       /\ \E f \in FilePaths : RemoveFile(f)
    \/ /\ graph # None
       /\ updates < MaxUpdates
       /\ \E listing \in Listings(fs), c, r \in Batches : UpdateGraph(listing, c, r)

Spec == Init /\ [][Next]_vars

-----------------------------------------------------------------------------
(* The incremental update of a built graph *)

\* Two documents that refer to each other and to a missing one.
UpdateFiles == {RootA, SubB}
UpdateRefs == {RefWikiA, RefWikiB, RefWikiMissing}

UpdateTrees ==
    {t \in [FilePaths -> {Absent} \cup {File(TRUE, x, 0) : x \in SeqsUpTo(UpdateRefs, MaxLinks)}] :
        /\ \A f \in FilePaths : t[f].present <=> f \in UpdateFiles
        /\ TotalLinks(t) <= MaxLinks}

InitUpdate == fs \in UpdateTrees /\ Start /\ NoCache

\* The argument lists of update_graph over the two documents.
UpdateBatches == SeqsUpTo(UpdateFiles, 1)

NextUpdate ==
    \/ Construct
    \/ /\ graph # None
       /\ edits < MaxEdits
       /\ \E f \in UpdateFiles : \E file \in Rewrites(fs[f], 0) : WriteFile(f, file)
    \/ /\ graph # None
       /\ edits < MaxEdits
       /\ \E f \in UpdateFiles : RemoveFile(f)
    \/ /\ graph # None
       /\ updates < MaxUpdates
       /\ \E listing \in Listings(fs), c, r \in UpdateBatches :
                UpdateGraphCall(listing, c, r)

SpecUpdate == InitUpdate /\ [][NextUpdate]_vars

-----------------------------------------------------------------------------
(* CacheManager's operations *)

\* A release before CACHE_VERSION, and the cache it left for this tree.
OlderVersion == <<"0", ".", "9">>
EmptyGraph ==
    [nodes |-> <<>>, clusters |-> <<>>, hub_nodes |-> <<>>, orphan_nodes |-> <<>>,
     broken_links |-> <<>>]
OlderCache ==
    \E listing \in Listings(fs) :
        /\ cache_file = Some(PickleDump(EmptyGraph, AllBytes))
        /\ metadata_file = Some(JsonDump([version |-> OlderVersion,
                                          file_timestamps |-> _get_file_timestamps(fs, listing)],
                                         AllBytes))

\* Any tree of readable files with at most one link, every file written at
\* time 0, with no cache or with the cache of an older release.
CacheTrees ==
    {t \in Trees : TotalLinks(t) <= 1 /\ \A f \in FilePaths : t[f].present => t[f].readable}

InitCache == fs \in CacheTrees /\ Start /\ (NoCache \/ OlderCache)

SaveCache(listing, fault) ==
    /\ graph # None
    /\ LET r == save_cache(cache_file, metadata_file, Val(graph), fs, listing, fault)
       IN  /\ cache_file' = r.cache_file
           /\ metadata_file' = r.metadata_file
           /\ raised' = r.raised
    /\ saved_fs' = IF fault = NoFault THEN Some(fs) ELSE None
    /\ op' = "save_cache"
    /\ UNCHANGED query_vars
    /\ UNCHANGED <<fs, file_index, graph, edits, updates, removed_so_far, loaded>>

LoadCache(listing) ==
    /\ LET r == load_cache(cache_file, metadata_file, fs, listing)
       IN  /\ loaded' = r.result
           /\ raised' = r.raised
    /\ op' = "load_cache"
    /\ UNCHANGED query_vars
    /\ UNCHANGED <<fs, file_index, graph, edits, updates, removed_so_far,
                   cache_file, metadata_file, saved_fs>>

ClearCache ==
    /\ ~NoCache
    /\ LET r == clear_cache(cache_file, metadata_file)
       IN  /\ cache_file' = r.cache_file
           /\ metadata_file' = r.metadata_file
    /\ saved_fs' = None
    /\ op' = "clear_cache"
    /\ UNCHANGED query_vars
    /\ raised' = ""
    /\ UNCHANGED <<fs, file_index, graph, edits, updates, removed_so_far, loaded>>

\* The modification time of a file is set, or an empty file is created.
Touches(file, t) ==
    IF file.present THEN {[file EXCEPT !.mtime = t]} ELSE {File(TRUE, <<>>, t)}

NextCache ==
    \/ Construct
    \/ /\ graph # None
       /\ edits < MaxEdits
       /\ \E f \in FilePaths, t \in 0..MaxTime :
            \E file \in Touches(fs[f], t) : WriteFile(f, file)
    \/ /\ graph # None
       /\ edits < MaxEdits
       /\ \E f \in FilePaths : RemoveFile(f)
    \/ /\ graph # None
       /\ \E listing \in Listings(fs), fault \in SaveFaults : SaveCache(listing, fault)
    \/ \E listing \in Listings(fs) : LoadCache(listing)
    \/ ClearCache

SpecCache == InitCache /\ [][NextCache]_vars

-----------------------------------------------------------------------------
(* LinkResolver on its own *)

\* A tree with more files of stem "a" and "A", all of them empty documents.
NameUpperA == <<"A", ".", "m", "d">>
RootUpperA == <<R, NameUpperA>>
SubUpperA == <<R, S, NameUpperA>>
ResolveFiles == FilePaths \cup {RootUpperA, SubUpperA}
ResolveTrees == [ResolveFiles -> {Absent, File(TRUE, <<>>, 0)}]

\* The texts between the brackets: [[a]] [[A]] [[ a]] [[b]] [[s/a]] [[ ]]
ResolveTexts ==
    {<<"a">>, <<"A">>, <<" ", "a">>, <<"b">>, <<"s", "/", "a">>, <<" ">>}

\* LinkResolver(notes_root) over any such tree.
InitResolve ==
    /\ fs \in ResolveTrees
    /\ \E listing \in Listings(fs) : file_index = Some(_build_file_index(fs, listing))
    /\ graph = None
    /\ op = "new_resolver"
    /\ raised = ""
    /\ edits = 0
    /\ updates = 0
    /\ removed_so_far = {}
    /\ loaded = None
    /\ saved_fs = None
    /\ resolved = None
    /\ related = None
    /\ found = None
    /\ index_call = None
    /\ parse_call = None
    /\ update_call = None
    /\ returned = None
    /\ NoCache

UpdateIndexCall(added_files, removed_files) ==
    /\ file_index' = Some(update_index(Val(file_index), added_files, removed_files))
    /\ index_call' = Some([added_files |-> added_files, removed_files |-> removed_files])
    /\ updates' = updates + 1
    /\ op' = "update_index"
    /\ raised' = ""
    /\ UNCHANGED <<fs, graph, edits, removed_so_far>>
    /\ UNCHANGED <<resolved, related, found, parse_call, update_call, returned>>
    /\ UNCHANGED cache_vars

UpdateIndex(added_files, removed_files) ==
    /\ updates < MaxUpdates
    /\ resolved = None
    /\ UpdateIndexCall(added_files, removed_files)

\* One link is resolved against the index as it has become.
ResolveWikiLink(listing, link_text, source_path) ==
    /\ resolved = None
    /\ resolved' = Some([link_text |-> link_text,
                         source_path |-> source_path,
                         target_path |-> _resolve_wiki_link(Val(file_index), fs, listing,
                                                            link_text, source_path)])
    /\ op' = "_resolve_wiki_link"
    /\ raised' = ""
    /\ UNCHANGED <<related, found, index_call, parse_call, update_call, returned>>
    /\ UNCHANGED <<fs, file_index, graph, edits, updates, removed_so_far>>
    /\ UNCHANGED cache_vars

\* The links handed to resolve_link: the wiki texts and [[zz]], and the
\* targets a.md, b, ../a.md, zz.md and #h of markdown links.
ResolveLinks(source_path) ==
    {Link(source_path, WIKI, text, 1) : text \in ResolveTexts \cup {<<"z", "z">>}}
    \cup {Link(source_path, MARKDOWN, text, 1) :
            text \in {<<"a", ".", "m", "d">>, <<"b">>, <<".", ".", "/", "a", ".", "m", "d">>,
                      <<"z", "z", ".", "m", "d">>, <<"#", "h">>}}

\* resolve_link(link) against the index as it has become.
ResolveLink(listing, link) ==
    /\ resolved = None
    /\ returned = None
    /\ returned' = Some([link |-> link,
                         result |-> resolve_link(Val(file_index), fs, listing, link)])
    /\ op' = "resolve_link"
    /\ raised' = ""
    /\ UNCHANGED <<resolved, related, found, index_call, parse_call, update_call>>
    /\ UNCHANGED <<fs, file_index, graph, edits, updates, removed_so_far>>
    /\ UNCHANGED cache_vars

ResolveBatches == SeqsUpTo(ResolveFiles, 1)

NextResolve ==
    \/ /\ updates < MaxUpdates
       /\ resolved = None
       /\ returned = None
       /\ \E added, removed \in ResolveBatches : UpdateIndex(added, removed)
    \/ /\ resolved = None
       /\ returned = None
       /\ \E listing \in Listings(fs), text \in ResolveTexts :
            \E source_path \in {f \in ResolveFiles : fs[f].present} :
                ResolveWikiLink(listing, text, source_path)
    \/ /\ resolved = None
       /\ returned = None
       /\ \E listing \in Listings(fs) :
            \E source_path \in {f \in ResolveFiles : fs[f].present} :
                \E link \in ResolveLinks(source_path) : ResolveLink(listing, link)

SpecResolve == InitResolve /\ [][NextResolve]_vars

-----------------------------------------------------------------------------
(* GraphAnalyzer's operation, on a graph built from tagged notes *)

TagNames == {<<"t">>}

\* Trees of readable files, each with any of the tags.
RelatedTrees ==
    {[f \in FilePaths |-> IF t[f].present THEN Tagged(t[f], tags[f]) ELSE t[f]] :
        t \in {u \in Trees : \A f \in FilePaths : u[f].present => u[f].readable},
        tags \in [FilePaths -> SUBSET TagNames]}

InitRelated == fs \in RelatedTrees /\ Start /\ NoCache

\* The orders in which the cluster of a node, a set, may be iterated.
MemberOrders(g, note_path) ==
    IF ~HasKey(g.nodes, note_path) \/ RelatedRaises(g, note_path)
            \/ NodeAt(g.nodes, note_path).cluster_id = NoCluster
    THEN {<<>>}
    ELSE LET cluster == g.clusters[NodeAt(g.nodes, note_path).cluster_id + 1]
         IN  {q \in SeqsUpTo(cluster, Cardinality(cluster)) :
                Len(q) = Cardinality(cluster) /\ IsDistinct(q)}

\* max_results: int = 20
DefaultMaxResults == 20

FindRelatedNotes(note_path, max_results, member_order) ==
    /\ graph # None
    /\ related = None
    /\ IF RelatedRaises(Val(graph), note_path)
       THEN /\ raised' = "IndexError"
            /\ UNCHANGED related
       ELSE /\ raised' = ""
            /\ related' = Some([note_path |-> note_path,
                                max_results |-> max_results,
                                member_order |-> member_order,
                                items |-> find_related_notes(Val(graph), note_path,
                                                             max_results, member_order)])
    /\ op' = "find_related_notes"
    /\ UNCHANGED <<resolved, found, index_call, parse_call, update_call, returned>>
    /\ UNCHANGED <<fs, file_index, graph, edits, updates, removed_so_far>>
    /\ UNCHANGED cache_vars

NextRelated ==
    \/ related = None /\ Construct
    \/ /\ graph # None
       /\ related = None
       /\ edits < MaxEdits
       /\ \E f \in FilePaths : RemoveFile(f)
    \/ /\ graph # None
       /\ related = None
       /\ updates < MaxUpdates
       /\ \E listing \in Listings(fs), r \in Batches : UpdateGraph(listing, <<>>, r)
    \/ /\ graph # None
       /\ related = None
       /\ \E note_path \in FilePaths :
            \E member_order \in MemberOrders(Val(graph), note_path) :
                FindRelatedNotes(note_path, DefaultMaxResults, member_order)

SpecRelated == InitRelated /\ [][NextRelated]_vars

\* The related notes of a graph as built, asked for with a max_results that
\* the candidates may exceed.
MaxFew == 2

NextRelatedFew ==
    \/ related = None /\ Construct
    \/ /\ graph # None
       /\ related = None
       /\ \E note_path \in FilePaths, max_results \in 0..MaxFew :
            \E member_order \in MemberOrders(Val(graph), note_path) :
                FindRelatedNotes(note_path, max_results, member_order)

SpecRelatedFew == InitRelated /\ [][NextRelatedFew]_vars

-----------------------------------------------------------------------------
(* SearchEngine's operation *)

\* Matches of the query's pattern in the text of one file, at most.
MaxMatches == 1

\* limit: int = 50
DefaultLimit == 50

\* Trees of files without references: any file may be missing, unreadable,
\* or hold any of the tags.
SearchTrees ==
    [FilePaths -> {Absent, File(FALSE, <<>>, 0)}
                    \cup {Tagged(File(TRUE, <<>>, 0), tags) : tags \in SUBSET TagNames}]

InitSearch == fs \in SearchTrees /\ Start /\ NoCache

\* The queries: a stem in either case, a directory, a tag with and without
\* "#", the empty query, and one that matches nothing.
Queries == {<<"a">>, <<"B">>, <<"s">>, <<"t">>, <<"#", "T">>, <<>>, <<"z">>}

Search(query, limit, text_matches) ==
    /\ graph # None
    /\ found = None
    /\ found' = Some([query |-> query,
                      limit |-> limit,
                      text_matches |-> text_matches,
                      results |-> search(Val(graph), fs, query, limit, text_matches)])
    /\ op' = "search"
    /\ raised' = ""
    /\ UNCHANGED <<resolved, related, index_call, parse_call, update_call, returned>>
    /\ UNCHANGED <<fs, file_index, graph, edits, updates, removed_so_far>>
    /\ UNCHANGED cache_vars

NextSearch ==
    \/ found = None /\ Construct
    \/ /\ graph # None
       /\ found = None
       /\ edits < MaxEdits
       /\ \E f \in FilePaths : RemoveFile(f)
    \/ /\ graph # None
       /\ found = None
       /\ \E query \in Queries, text_matches \in [FilePaths -> 0..MaxMatches],
             limit \in {1, DefaultLimit} :
            Search(query, limit, text_matches)

SpecSearch == InitSearch /\ [][NextSearch]_vars

-----------------------------------------------------------------------------
(* The clusters of four documents *)

NameC == <<"c", ".", "m", "d">>
NameD == <<"d", ".", "m", "d">>
RootC == <<R, NameC>>
SubD == <<R, S, NameD>>

\* Four documents of different stems, two in each directory.
ClusterFiles == {RootA, SubB, RootC, SubD}

\* Every document holds no reference or one of [[a]] [[b]] [[c]] [[d]].
ClusterRefs == {RefWikiA, RefWikiB, Wiki(<<"c">>), Wiki(<<"d">>)}
ClusterTrees == [ClusterFiles -> {File(TRUE, x, 0) : x \in SeqsUpTo(ClusterRefs, 1)}]

InitClusters == fs \in ClusterTrees /\ Start /\ NoCache

\* nx.pagerank fails in either way.
PageRankFailures(keys) == {o \in PageRankOutcomes(keys) : o.outcome # "converged"}

NextClusters ==
    \/ file_index = None /\ \E listing \in Listings(fs) : NewBuilder(listing)
    \/ /\ file_index # None
       /\ graph = None
       /\ \E listing \in Listings(fs), pagerank \in PageRankFailures(ClusterFiles) :
                BuildGraph(listing, pagerank)

SpecClusters == InitClusters /\ [][NextClusters]_vars

-----------------------------------------------------------------------------
(* The index under a sequence of update_index calls *)

\* update_index calls, and paths in one argument list, at most.
MaxIndexCalls == 2
MaxBatch == 1

\* Three files whose stems differ in case only or not at all.
StemFiles == {RootA, SubA, RootUpperA}
StemTrees == [StemFiles -> {Absent, File(TRUE, <<>>, 0)}]

InitIndex ==
    /\ fs \in StemTrees
    /\ \E listing \in Listings(fs) : file_index = Some(_build_file_index(fs, listing))
    /\ graph = None
    /\ op = "new_resolver"
    /\ raised = ""
    /\ edits = 0
    /\ updates = 0
    /\ removed_so_far = {}
    /\ loaded = None
    /\ saved_fs = None
    /\ resolved = None
    /\ related = None
    /\ found = None
    /\ index_call = None
    /\ parse_call = None
    /\ update_call = None
    /\ returned = None
    /\ NoCache

NextIndex ==
    \E added, removed \in SeqsUpTo(StemFiles, MaxBatch) :
        updates < MaxIndexCalls /\ UpdateIndexCall(added, removed)

SpecIndex == InitIndex /\ [][NextIndex]_vars

-----------------------------------------------------------------------------
(* The parser on the characters of a text *)

\* The pieces of a text, at most.
MaxItems == 2

Plain(text) == [kind |-> "text", inner |-> text, display |-> <<>>, target |-> <<>>]

\* The pieces: [[a]] [[a|d]] [[ a |d]] [[b|c|d]], [x](t) and [x](...) to
\* each of the external schemes, and plain text without square brackets.
Items ==
    {Wiki(<<"a">>), Wiki(<<"a", "|", "d">>), Wiki(<<" ", "a", " ", "|", "d">>),
     Wiki(<<"b", "|", "c", "|", "d">>)}
    \cup {Md(<<"x">>, <<"t">>),
          Md(<<"x">>, <<"h", "t", "t", "p", ":", "/", "/", "h">>),
          Md(<<"x">>, <<"h", "t", "t", "p", "s", ":", "/", "/", "h">>),
          Md(<<"x">>, <<"f", "t", "p", ":", "/", "/", "h">>),
          Md(<<"x">>, <<"m", "a", "i", "l", "t", "o", ":", "m">>),
          Md(<<"x">>, <<"f", "t", "p">>)}
    \cup {Plain(<<"x">>), Plain(<<"(", "y", ")">>)}

\* A piece as it is written.
AsWritten(item) ==
    IF item.kind = "wiki" THEN <<"[", "[">> \o item.inner \o <<"]", "]">>
    ELSE IF item.kind = "md" THEN <<"[">> \o item.display \o <<"]", "(">> \o item.target \o <<")">>
    ELSE item.inner

\* A text: its pieces, each followed by a line break or not.
Documents == SeqsUpTo(Items \X BOOLEAN, MaxItems)

RECURSIVE Content(_)
Content(document) ==
    IF document = <<>> THEN <<>>
    ELSE AsWritten(Head(document)[1]) \o (IF Head(document)[2] THEN <<"\n">> ELSE <<>>)
            \o Content(Tail(document))

InitParse ==
    /\ fs = [f \in FilePaths |-> Absent]
    /\ file_index = None
    /\ graph = None
    /\ op = "init"
    /\ raised = ""
    /\ edits = 0
    /\ updates = 0
    /\ removed_so_far = {}
    /\ loaded = None
    /\ saved_fs = None
    /\ resolved = None
    /\ related = None
    /\ found = None
    /\ index_call = None
    /\ parse_call \in {Some([document |-> d, links |-> None]) : d \in Documents}
    /\ update_call = None
    /\ returned = None
    /\ NoCache

\* _extract_links(content, source_path) on the text as written.
ExtractLinksOfText ==
    /\ Val(parse_call).links = None
    /\ parse_call' = Some([Val(parse_call) EXCEPT !.links =
            Some(_extract_links(Split(Content(Val(parse_call).document), "\n"), SubA, 1))])
    /\ op' = "_extract_links"
    /\ raised' = ""
    /\ UNCHANGED <<resolved, related, found, index_call, update_call, returned>>
    /\ UNCHANGED <<fs, file_index, graph, edits, updates, removed_so_far>>
    /\ UNCHANGED cache_vars

NextParse == ExtractLinksOfText

SpecParse == InitParse /\ [][NextParse]_vars

-----------------------------------------------------------------------------
(* The hub selection over more nodes than top_n *)

\* Nodes at most, and the length of the pattern their degrees repeat.
MaxNodes == 12
HubPeriod == 3

Letters == <<"a", "b", "c", "d", "e", "f", "g", "h", "i", "j", "k", "l", "m", "n">>
NodePath(i) == <<R, <<Letters[i]>> \o DotMd>>

\* in_degree, out_degree and centrality_score of a node: total degree 0 to 3,
\* two scores at total degree 2.
HubKinds ==
    {<<0, 0, Score(0, 1)>>, <<1, 0, Score(1, 4)>>, <<1, 1, Score(1, 4)>>,
     <<1, 1, Score(1, 2)>>, <<2, 1, Score(1, 2)>>}

NodeOfKind(i, kind) ==
    [GraphNode([path |-> NodePath(i), outgoing_links |-> <<>>, tags |-> {}])
        EXCEPT !.in_degree = kind[1], !.out_degree = kind[2], !.centrality_score = kind[3]]

\* The dicts of nodes handed to _find_hub_nodes: n nodes whose kinds repeat a
\* pattern.
HubInputs ==
    {[i \in 1..n |-> NodeOfKind(i, pattern[((i - 1) % HubPeriod) + 1])] :
        n \in 0..MaxNodes, pattern \in [1..HubPeriod -> HubKinds]}

InitHubs ==
    /\ fs = [f \in FilePaths |-> Absent]
    /\ file_index = None
    /\ graph = None
    /\ op = "init"
    /\ raised = ""
    /\ edits = 0
    /\ updates = 0
    /\ removed_so_far = {}
    /\ loaded = None
    /\ saved_fs = None
    /\ resolved = None
    /\ related = None
    /\ found = None
    /\ index_call = None
    /\ parse_call = None
    /\ update_call = None
    /\ returned \in {Some([nodes |-> nodes, result |-> None]) : nodes \in HubInputs}
    /\ NoCache

\* self._find_hub_nodes(graph_nodes)
FindHubNodes ==
    /\ Val(returned).result = None
    /\ returned' = Some([Val(returned) EXCEPT
                            !.result = Some(_find_hub_nodes(Val(returned).nodes))])
    /\ op' = "_find_hub_nodes"
    /\ raised' = ""
    /\ UNCHANGED <<resolved, related, found, index_call, parse_call, update_call>>
    /\ UNCHANGED <<fs, file_index, graph, edits, updates, removed_so_far>>
    /\ UNCHANGED cache_vars

NextHubs == FindHubNodes

SpecHubs == InitHubs /\ [][NextHubs]_vars

-----------------------------------------------------------------------------
(* The shortest paths between four documents *)

\* max_paths: int = 3
DefaultMaxPaths == 3

\* The links a document may hold, in the order of its lines: a holds any of
\* [[b]] [[c]] [[zz]], b any of [[d]] [[c]], c may hold [[d]] and d [[a]].
PathRefs(f) ==
    IF f = RootA THEN <<RefWikiB, Wiki(<<"c">>), RefWikiMissing>>
    ELSE IF f = SubB THEN <<Wiki(<<"d">>), Wiki(<<"c">>)>>
    ELSE IF f = RootC THEN <<Wiki(<<"d">>)>>
    ELSE <<RefWikiA>>

\* The sub-sequences of a sequence.
RECURSIVE SubSeqs(_)
SubSeqs(seq) ==
    IF seq = <<>> THEN {<<>>}
    ELSE SubSeqs(Tail(seq)) \cup {<<Head(seq)>> \o q : q \in SubSeqs(Tail(seq))}

\* d.md may be missing.
PathTrees ==
    UNION {{[f \in ClusterFiles |-> IF f = SubD /\ ~present THEN Absent
                                    ELSE File(TRUE, texts[f], 0)] :
                texts \in {x \in [ClusterFiles ->
                                    UNION {SubSeqs(PathRefs(f)) : f \in ClusterFiles}] :
                            \A f \in ClusterFiles : x[f] \in SubSeqs(PathRefs(f))}} :
            present \in BOOLEAN}

InitPaths == fs \in PathTrees /\ Start /\ NoCache

\* The orders in which the generator may give the shortest paths.
Generated(g, source, target) ==
    LET paths == all_shortest_paths(AnalyzerEdges(g), source, target)
    IN  {q \in SeqsUpTo(paths, Cardinality(paths)) :
            Len(q) = Cardinality(paths) /\ IsDistinct(q)}

\* GraphAnalyzer(graph).find_shortest_paths(source, target, max_paths)
FindShortestPaths(source, target, max_paths, generated) ==
    /\ graph # None
    /\ returned = None
    /\ returned' = Some([source |-> source, target |-> target, max_paths |-> max_paths,
                         result |-> find_shortest_paths(Val(graph), source, target,
                                                        max_paths, generated)])
    /\ op' = "find_shortest_paths"
    /\ raised' = ""
    /\ UNCHANGED <<resolved, related, found, index_call, parse_call, update_call>>
    /\ UNCHANGED <<fs, file_index, graph, edits, updates, removed_so_far>>
    /\ UNCHANGED cache_vars

\* GraphAnalyzer(graph).get_graph_statistics()
GetGraphStatistics ==
    /\ graph # None
    /\ returned = None
    /\ returned' = Some([stats |-> get_graph_statistics(Val(graph))])
    /\ op' = "get_graph_statistics"
    /\ raised' = ""
    /\ UNCHANGED <<resolved, related, found, index_call, parse_call, update_call>>
    /\ UNCHANGED <<fs, file_index, graph, edits, updates, removed_so_far>>
    /\ UNCHANGED cache_vars

NextPaths ==
    \/ file_index = None /\ \E listing \in Listings(fs) : NewBuilder(listing)
    \/ /\ file_index # None
       /\ graph = None
       /\ \E listing \in Listings(fs), pagerank \in PageRankFailures(ClusterFiles) :
                BuildGraph(listing, pagerank)
    \/ /\ graph # None
       /\ returned = None
       /\ \E source, target \in ClusterFiles, max_paths \in 0..DefaultMaxPaths :
            \E generated \in Generated(Val(graph), source, target) :
                FindShortestPaths(source, target, max_paths, generated)
    \/ GetGraphStatistics

SpecPaths == InitPaths /\ [][NextPaths]_vars

-----------------------------------------------------------------------------
(* Properties of the graph *)

\* The graph the builder returned last.
G == Val(graph)

Elems(seq) == {seq[i] : i \in 1..Len(seq)}

\* Every outgoing link of every node of the graph.
OutgoingLinks(g) ==
    UNION {Elems(g.nodes[i].note.outgoing_links) : i \in 1..Len(g.nodes)}

\* The paths the clusters, the hub list and the orphan list name.
AnalyticsPaths(g) ==
    UNION Elems(g.clusters) \cup Elems(g.hub_nodes) \cup Elems(g.orphan_nodes)

\* C1: after build_graph and after every update_graph that follows it, each
\* node's in_degree is the length of its incoming_links and its out_degree the
\* length of its note's outgoing_links.
C1_DegreesAreListLengths ==
    graph # None =>
        \A i \in 1..Len(G.nodes) :
            /\ G.nodes[i].in_degree = Len(G.nodes[i].incoming_links)
            /\ G.nodes[i].out_degree = Len(G.nodes[i].note.outgoing_links)

\* An update_graph that followed an edit of the tree left a node with an
\* incoming and a node with an outgoing link.
C1_Witness ==
    /\ op = "update_graph"
    /\ edits > 0
    /\ \E i \in 1..Len(G.nodes) : G.nodes[i].in_degree > 0
    /\ \E i \in 1..Len(G.nodes) : G.nodes[i].out_degree > 0

\* C2 as stated: in the graph build_graph returns, the target of every
\* outgoing link that is not broken is a node, and the target of every broken
\* link is null or no node.
C2_BrokenFlagMatchesNodes ==
    op = "build_graph" =>
        \A l \in OutgoingLinks(G) :
            /\ ~l.is_broken => TargetInNodes(G.nodes, l)
            /\ l.is_broken => ~TargetInNodes(G.nodes, l)

\* C3 as stated: after build_graph and any update_graph calls, every path of a
\* cluster, of the hub list and of the orphan list is a node.
C3_AnalyticsPathsAreNodes ==
    graph # None => AnalyticsPaths(G) \subseteq KeySet(G.nodes)

\* C3 as amended: every such path is a node, or was named in the removed_files
\* of an update_graph call.
C3_AnalyticsPathsAreNodesOrRemoved ==
    graph # None => AnalyticsPaths(G) \subseteq KeySet(G.nodes) \cup removed_so_far

\* update_graph removed a node that the graph, which has an orphan and a
\* cluster, still lists among them.
C3_Witness ==
    /\ op = "update_graph"
    /\ G.orphan_nodes # <<>>
    /\ G.clusters # <<>>
    /\ \E p \in AnalyticsPaths(G) : p \in removed_so_far /\ ~HasKey(G.nodes, p)

\* A link has no resolvable target: none was found, it is flagged broken, or
\* its target is no node.
Unresolvable(g, l) == l.target_path = None \/ l.is_broken \/ ~TargetInNodes(g.nodes, l)

\* C4 as stated: after build_graph and any update_graph calls, every outgoing
\* link of a node that has no resolvable target is in broken_links.
C4_UnresolvableLinksAreListed ==
    graph # None =>
        \A l \in OutgoingLinks(G) : Unresolvable(G, l) => InSeq(l, G.broken_links)

\* C5: after build_graph the orphan list holds exactly the nodes of in_degree 0
\* and out_degree 0, each once, and none of them is in a cluster.
C5_OrphansExact ==
    op = "build_graph" =>
        /\ Elems(G.orphan_nodes) =
              {G.nodes[i].note.path : i \in {j \in 1..Len(G.nodes) :
                    G.nodes[j].in_degree = 0 /\ G.nodes[j].out_degree = 0}}
        /\ IsDistinct(G.orphan_nodes)
        /\ \A p \in Elems(G.orphan_nodes) : \A c \in Elems(G.clusters) : p \notin c

\* A build that found an orphan next to a cluster.
C5_Witness ==
    /\ op = "build_graph"
    /\ G.orphan_nodes # <<>>
    /\ G.clusters # <<>>

\* How often x occurs in seq.
Count(x, seq) == Cardinality({i \in 1..Len(seq) : seq[i] = x})

\* How often the link occurs in the incoming_links of the node keyed by its
\* target_path.
CountAtTarget(g, l) ==
    IF TargetInNodes(g.nodes, l)
    THEN Count(l, NodeAt(g.nodes, Val(l.target_path)).incoming_links)
    ELSE 0

RECURSIVE SumOver(_)
SumOver(numbers) == IF numbers = <<>> THEN 0 ELSE Head(numbers) + SumOver(Tail(numbers))

\* C13: after build_graph every outgoing link of every node is either in
\* broken_links or in the incoming_links of the node its target_path names,
\* and in one of them only; the in-degrees and the broken links add up to
\* the out-degrees.
C13_EveryLinkListedOnce ==
    op = "build_graph" =>
        /\ \A l \in OutgoingLinks(G) : Count(l, G.broken_links) + CountAtTarget(G, l) = 1
        /\ SumOver([i \in 1..Len(G.nodes) |-> G.nodes[i].in_degree]) + Len(G.broken_links)
                = SumOver([i \in 1..Len(G.nodes) |-> G.nodes[i].out_degree])

\* The pairs of nodes that a link that is not broken joins.
Joined(g) ==
    {<<l.source_path, Val(l.target_path)>> :
        l \in {k \in OutgoingLinks(g) : ~k.is_broken /\ TargetInNodes(g.nodes, k)}}

\* Some link joins a node of `part` and a node of `rest`, in either direction.
Touching(g, part, rest) ==
    \E e \in Joined(g) : (e[1] \in part /\ e[2] \in rest) \/ (e[1] \in rest /\ e[2] \in part)

\* c is a connected component: no link leaves it, and every split of it in
\* two parts has a link between the parts.
IsComponent(g, c) ==
    /\ c # {}
    /\ ~Touching(g, c, KeySet(g.nodes) \ c)
    /\ \A part \in SUBSET c : (part # {} /\ part # c) => Touching(g, part, c \ part)

\* C14: after build_graph the clusters are the connected components of more
\* than one node, each once; a member's cluster_id is the index of its
\* cluster in the list, and a node in no cluster has none.
C14_ClustersAreComponents ==
    op = "build_graph" =>
        /\ Elems(G.clusters) =
                {c \in SUBSET KeySet(G.nodes) : Cardinality(c) > 1 /\ IsComponent(G, c)}
        /\ IsDistinct(G.clusters)
        /\ \A i \in 1..Len(G.nodes) :
                IF \E k \in 1..Len(G.clusters) : G.nodes[i].note.path \in G.clusters[k]
                THEN /\ G.nodes[i].cluster_id + 1 \in 1..Len(G.clusters)
                     /\ G.nodes[i].note.path \in G.clusters[G.nodes[i].cluster_id + 1]
                ELSE G.nodes[i].cluster_id = NoCluster

\* A build of three documents that link each other in a circle and a fourth,
\* an orphan, in no cluster.
C14_Witness ==
    /\ op = "build_graph"
    /\ Len(G.clusters) = 1
    /\ Cardinality(G.clusters[1]) = 3
    /\ Cardinality(Joined(G)) = 3
    /\ \E i \in 1..Len(G.nodes) :
            G.nodes[i].cluster_id = NoCluster /\ InSeq(G.nodes[i].note.path, G.orphan_nodes)

\* The files that build_graph skips: parse_file raises on them.
Skipped(tree) == {f \in DOMAIN tree : tree[f].present /\ ~IsHidden(f) /\ ~CanParse(tree, f)}

\* The link, as written in its document, refers to file f: resolving it gives f.
RefersTo(l, f) ==
    \E listing \in Listings(fs) :
        resolve_link(Val(file_index), fs, listing,
                     Link(l.source_path, l.link_type, l.link_text, l.line_number)).target_path
            = Some(f)

\* C15: build_graph over files of which some fail to parse raises nothing;
\* the nodes are the files that parsed, and every link of a node to a
\* skipped file is in broken_links and in no incoming_links.
C15_SkippedFilesOnlyBreakLinks ==
    op = "build_graph" =>
        /\ raised = ""
        /\ KeySet(G.nodes) = Parsed(fs)
        /\ \A l \in OutgoingLinks(G) :
                (\E f \in Skipped(fs) : RefersTo(l, f)) =>
                    /\ Count(l, G.broken_links) > 0
                    /\ \A i \in 1..Len(G.nodes) : Count(l, G.nodes[i].incoming_links) = 0

\* A link that is not broken points at the document.
HasResolvedIncoming(g, path) ==
    \E l \in OutgoingLinks(g) : ~l.is_broken /\ l.target_path = Some(path)

\* The document holds a link that is not broken.
HasResolvedOutgoing(g, path) ==
    \E l \in Elems(NodeAt(g.nodes, path).note.outgoing_links) : ~l.is_broken

\* C18 as stated: after build_graph a document is in orphan_nodes iff no link
\* that is not broken points at it and it holds no link that is not broken, so
\* a document whose only links are broken is an orphan.
C18_OrphanIffNoResolvedLink ==
    (op = "build_graph" /\ raised = "") =>
        \A path \in KeySet(G.nodes) :
            InSeq(path, G.orphan_nodes) <=>
                (~HasResolvedIncoming(G, path) /\ ~HasResolvedOutgoing(G, path))

\* C18: after build_graph a document is in orphan_nodes iff no link that is
\* not broken points at it and it holds no link at all, broken or not.
C18_OrphanIffNoLinkAtAll ==
    (op = "build_graph" /\ raised = "") =>
        \A path \in KeySet(G.nodes) :
            InSeq(path, G.orphan_nodes) <=>
                (~HasResolvedIncoming(G, path)
                    /\ NodeAt(G.nodes, path).note.outgoing_links = <<>>)

\* A build found an orphan and left out of the orphan list a document that
\* nothing points at and whose only links are broken.
C18_Witness ==
    /\ op = "build_graph"
    /\ raised = ""
    /\ G.orphan_nodes # <<>>
    /\ \E path \in KeySet(G.nodes) :
            /\ ~InSeq(path, G.orphan_nodes)
            /\ ~HasResolvedIncoming(G, path)
            /\ ~HasResolvedOutgoing(G, path)
            /\ NodeAt(G.nodes, path).note.outgoing_links # <<>>

-----------------------------------------------------------------------------
(* Properties of the centrality *)

\* The degree centrality of every node of a graph of more than one node:
\* (in_degree + out_degree) / (number of nodes - 1).
DegreeCentrality(g) ==
    Len(g.nodes) > 1 =>
        \A i \in 1..Len(g.nodes) :
            g.nodes[i].centrality_score
                = Score(g.nodes[i].in_degree + g.nodes[i].out_degree, Len(g.nodes) - 1)

\* C28: when the PageRank computation of build_graph does not converge or
\* fails for any other reason, build_graph returns a graph all the same, and
\* the centrality of every node is its degree centrality.
C28_FallbackOnAnyFailure ==
    op = "build_graph" =>
        /\ raised = ""
        /\ graph # None
        /\ DegreeCentrality(Val(graph))

\* After a failure that is caught, the graph has the degree centrality.
C28_FallbackWhenCaught ==
    (op = "build_graph" /\ graph # None) => DegreeCentrality(Val(graph))

\* A graph of several linked nodes was built with the fallback.
C28_FallbackReached ==
    /\ op = "build_graph"
    /\ graph # None
    /\ Len(Val(graph).nodes) > 1
    /\ \E i \in 1..Len(Val(graph).nodes) : Val(graph).nodes[i].in_degree > 0

-----------------------------------------------------------------------------
(* Properties of the related notes *)

ItemPaths(items) == [i \in 1..Len(items) |-> items[i].path]

\* The candidates the four signals gave the last find_related_notes.
LastCandidates ==
    RelatedCandidates(G, NodeAt(G.nodes, Val(related).note_path), Val(related).member_order)

\* C11: the list find_related_notes returns holds no item whose path is the
\* note asked about and no two items of the same path, whatever signal the
\* candidates came from.
C11_RelatedExcludesOriginAndDuplicates ==
    related # None =>
        /\ \A i \in 1..Len(Val(related).items) :
                Val(related).items[i].path # Val(related).note_path
        /\ IsDistinct(ItemPaths(Val(related).items))

\* The note asked about has a candidate that is the note itself, and two
\* candidates of one path from different signals, one of which is returned.
C11_Witness ==
    /\ related # None
    /\ HasKey(G.nodes, Val(related).note_path)
    /\ \E i \in 1..Len(LastCandidates) : LastCandidates[i].path = Val(related).note_path
    /\ \E i, j \in 1..Len(LastCandidates) :
            /\ LastCandidates[i].path = LastCandidates[j].path
            /\ LastCandidates[i].type # LastCandidates[j].type
            /\ \E k \in 1..Len(Val(related).items) :
                    Val(related).items[k].path = LastCandidates[i].path

\* The place of a signal in the order in which the signals are asked.
SignalRank(type) ==
    IF type = "direct" THEN 1 ELSE IF type = "cluster" THEN 2
    ELSE IF type = "similar" THEN 3 ELSE 4

\* The score of a candidate of a signal, before the boosts.
BaseScoreOf(candidate) ==
    IF candidate.type = "direct" THEN Score(5, 1)
    ELSE IF candidate.type = "cluster" THEN Score(3, 1)
    ELSE candidate.score

\* C26: a candidate that several signals gave is reported once, with the
\* category and the base score (boosted) of the first signal that gave it in
\* the order direct, cluster, structural similarity, tag similarity; the list
\* is in non-increasing order of the boosted score and has at most
\* max_results items.
C26_FirstSignalSortedTruncated ==
    related # None =>
        LET items == Val(related).items
            node == NodeAt(G.nodes, Val(related).note_path)
        IN  /\ IsDistinct(ItemPaths(items))
            /\ \A k \in 1..Len(items) :
                    \E i \in 1..Len(LastCandidates) :
                        /\ LastCandidates[i].path = items[k].path
                        /\ \A j \in 1..Len(LastCandidates) :
                                LastCandidates[j].path = items[k].path =>
                                    SignalRank(LastCandidates[i].type)
                                        <= SignalRank(LastCandidates[j].type)
                        /\ items[k].type = LastCandidates[i].type
                        /\ items[k].score =
                                BoostItem(G, [LastCandidates[i] EXCEPT
                                                !.score = BaseScoreOf(LastCandidates[i])],
                                          node).score
            /\ \A i, j \in 1..Len(items) :
                    i < j => ~ScoreLess(items[i].score, items[j].score)
            /\ Len(items) <= Val(related).max_results

\* Two signals gave the one item returned, which is not the first of the
\* candidates: the first has the lower boosted score and was cut off.
C26_Witness ==
    /\ related # None
    /\ Val(related).max_results = 1
    /\ Len(Val(related).items) = 1
    /\ Val(related).items[1].path # LastCandidates[1].path
    /\ LastCandidates[1].path # Val(related).note_path
    /\ \E i, j \in 1..Len(LastCandidates) :
            /\ LastCandidates[i].path = Val(related).items[1].path
            /\ LastCandidates[j].path = Val(related).items[1].path
            /\ LastCandidates[i].type # LastCandidates[j].type

-----------------------------------------------------------------------------
(* Properties of the search *)

\* The results the strategies gave the last search for one document.
LastResultsOf(path) ==
    SelectSeq(StrategyResults(G, fs, Val(found).query, Val(found).text_matches),
              LAMBDA r : r.note_path = path)

\* C12: a document that two different strategies matched with the scores a
\* and b is returned with the score (a + b) * 1.5, which is strictly greater
\* than the greater of a and b.
C12_TwoStrategiesBoosted ==
    found # None =>
        \A i \in 1..Len(Val(found).results) :
            LET result == Val(found).results[i]
                matched == LastResultsOf(result.note_path)
            IN  (Len(matched) = 2 /\ matched[1].match_types # matched[2].match_types) =>
                    /\ result.score.num * 2
                            = (matched[1].score.num + matched[2].score.num) * 3 * result.score.den
                    /\ ScoreLess(matched[1].score, result.score)
                    /\ ScoreLess(matched[2].score, result.score)

\* A search returned a document that exactly two strategies matched, with
\* different scores.
C12_Witness ==
    /\ found # None
    /\ \E i \in 1..Len(Val(found).results) :
            LET matched == LastResultsOf(Val(found).results[i].note_path)
            IN  /\ Len(matched) = 2
                /\ matched[1].match_types # matched[2].match_types
                /\ matched[1].score # matched[2].score

\* C27: search returns each document at most once; a document that exactly
\* one strategy matched has that strategy's score and match type; the list
\* is in non-increasing order of score and has at most limit entries.
C27_SearchMergedSortedTruncated ==
    found # None =>
        LET results == Val(found).results
        IN  /\ IsDistinct([i \in 1..Len(results) |-> results[i].note_path])
            /\ \A i \in 1..Len(results) :
                    /\ LastResultsOf(results[i].note_path) # <<>>
                    /\ Len(LastResultsOf(results[i].note_path)) = 1 =>
                            results[i] = LastResultsOf(results[i].note_path)[1]
            /\ \A i, j \in 1..Len(results) :
                    i < j => ~ScoreLess(results[i].score, results[j].score)
            /\ Len(results) <= Val(found).limit

\* The strategies matched several documents; the one returned was matched by
\* one strategy only and is not the document matched first.
C27_Witness ==
    /\ found # None
    /\ Val(found).limit = 1
    /\ Len(Val(found).results) = 1
    /\ Len(LastResultsOf(Val(found).results[1].note_path)) = 1
    /\ StrategyResults(G, fs, Val(found).query, Val(found).text_matches)[1].note_path
            # Val(found).results[1].note_path

-----------------------------------------------------------------------------
(* Properties of the cache *)

\* Both cache files are there as a save_cache of this release writes them.
WrittenBySaveCache ==
    /\ cache_file # None /\ Val(cache_file).bytes = AllBytes
    /\ metadata_file # None /\ Val(metadata_file).bytes = AllBytes
    /\ Val(metadata_file).payload.version = CACHE_VERSION

\* The fingerprint of a tree, and the one the metadata file holds: pairs of a
\* path relative to the root and a modification time.
Fingerprint(tree) ==
    {<<RelativeToRoot(f), tree[f].mtime>> : f \in {x \in FilePaths : tree[x].present}}

StoredFingerprint ==
    {<<e.path, e.mtime>> : e \in Elems(Val(metadata_file).payload.file_timestamps)}

\* Exactly one file of tree `new` is not as in `old`: it was added, removed, or
\* its modification time differs.
OneFileDiffers(old, new) ==
    Cardinality({f \in FilePaths :
        \/ old[f].present # new[f].present
        \/ old[f].present /\ old[f].mtime # new[f].mtime}) = 1

\* C6: on files written by save_cache, load_cache returns a graph exactly when
\* the stored fingerprint and that of the tree have the same paths with the
\* same timestamps; and once a save went through, a tree in which one file was
\* since touched, added or removed makes load_cache return None.
C6_ValidIffSameFingerprint ==
    op = "load_cache" =>
        /\ WrittenBySaveCache =>
              /\ raised = ""
              /\ loaded # None <=> StoredFingerprint = Fingerprint(fs)
        /\ saved_fs # None /\ OneFileDiffers(Val(saved_fs), fs) => loaded = None

\* load_cache has refused the files of a save that went through, because one
\* file was since touched.
C6_Witness ==
    /\ op = "load_cache"
    /\ WrittenBySaveCache
    /\ saved_fs # None
    /\ OneFileDiffers(Val(saved_fs), fs)
    /\ \E f \in FilePaths : fs[f].present /\ Val(saved_fs)[f].present
                            /\ fs[f].mtime # Val(saved_fs)[f].mtime
    /\ loaded = None

\* Degrees of the nodes of a graph, by path.
Degrees(g) ==
    {<<g.nodes[i].note.path, g.nodes[i].in_degree, g.nodes[i].out_degree>> :
        i \in 1..Len(g.nodes)}

\* C7: when the built graph was saved and the tree is as the save saw it,
\* load_cache returns a graph with the node paths and the degrees of the built
\* graph.
C7_UntouchedTreeReloads ==
    op = "load_cache" /\ saved_fs = Some(fs) =>
        /\ raised = ""
        /\ loaded # None
        /\ KeySet(Val(loaded).nodes) = KeySet(G.nodes)
        /\ Degrees(Val(loaded)) = Degrees(G)

\* A graph with a link between two nodes came back from the cache.
C7_Witness ==
    /\ op = "load_cache"
    /\ saved_fs = Some(fs)
    /\ loaded # None
    /\ \E i \in 1..Len(Val(loaded).nodes) : Val(loaded).nodes[i].in_degree > 0

\* C30: a graph that load_cache returns was built from a tree with the
\* fingerprint of the present tree, whatever was done between build_graph,
\* save_cache and load_cache. Such a tree has the files of the present tree,
\* all of them readable here, so the nodes of the returned graph are the
\* documents of the present tree.
C30_LoadedGraphIsOfThisTree ==
    op = "load_cache" /\ loaded # None =>
        KeySet(Val(loaded).nodes) = Parsed(fs)

\* What holds instead: a graph is returned when the tree is as save_cache saw
\* it, whatever tree build_graph saw.
C30_LoadedGraphIsOfSavedFingerprint ==
    op = "load_cache" /\ loaded # None /\ saved_fs # None =>
        Fingerprint(Val(saved_fs)) = Fingerprint(fs)

\* C8 as stated: a save_cache that fails leaves neither cache file behind and
\* raises the failure of the write.
C8_FailedSaveRollsBack ==
    op = "save_cache" /\ raised # "" => NoCache /\ raised = "OSError"

\* C9 as stated: load_cache raises nothing.
C9_LoadCacheNeverRaises ==
    op = "load_cache" => raised = ""

-----------------------------------------------------------------------------
(* Properties of the resolver *)

\* The files the index holds.
Indexed(index) == UNION {Elems(index[i].paths) : i \in 1..Len(index)}

\* The indexed files whose stem is the text of the last resolved link.
StemMatches == {f \in Indexed(Val(file_index)) : Stem(f) = Strip(Val(resolved).link_text)}

SameDirectory(f) == Parent(f) = Parent(Val(resolved).source_path)

\* C10: when the stem of an indexed file in the directory of the source and
\* that of an indexed file elsewhere both are the text of a wiki link,
\* _resolve_wiki_link returns a file in the directory of the source, whatever
\* the order of the index.
C10_SameDirectoryPreferred ==
    op = "_resolve_wiki_link" =>
        ((\E f \in StemMatches : SameDirectory(f)) /\ (\E f \in StemMatches : ~SameDirectory(f))
            => /\ Val(resolved).target_path # None
               /\ SameDirectory(Val(Val(resolved).target_path)))

\* The link was resolved to a file next to the source although the index lists
\* a file of another directory first under its text.
C10_Witness ==
    /\ op = "_resolve_wiki_link"
    /\ \E f \in StemMatches : SameDirectory(f)
    /\ \E f \in StemMatches : ~SameDirectory(f)
    /\ ~SameDirectory(IndexGet(Val(file_index), Strip(Val(resolved).link_text))[1])
    /\ SameDirectory(Val(Val(resolved).target_path))

\* The buckets are not empty and hold no path twice, and a file in any
\* bucket is in the bucket of its stem and in that of its stem in lower case.
BucketsInOrder(index) ==
    /\ \A i \in 1..Len(index) : index[i].paths # <<>> /\ IsDistinct(index[i].paths)
    /\ \A f \in Indexed(index) :
            /\ IndexHas(index, Stem(f)) /\ InSeq(f, IndexGet(index, Stem(f)))
            /\ IndexHas(index, LowerStr(Stem(f))) /\ InSeq(f, IndexGet(index, LowerStr(Stem(f))))

-----------------------------------------------------------------------------
(* Properties of the parser *)

\* The part of the text between the brackets before its first "|".
BeforeBar(inner) ==
    IF FirstIndex(inner, "|") = 0 THEN inner ELSE SubSeq(inner, 1, FirstIndex(inner, "|") - 1)

\* The beginnings of a target that make a reference external.
ExternalSchemes ==
    {<<"h", "t", "t", "p", ":", "/", "/">>, <<"h", "t", "t", "p", "s", ":", "/", "/">>,
     <<"f", "t", "p", ":", "/", "/">>, <<"m", "a", "i", "l", "t", "o", ":">>}

BeginsWithScheme(target) == \E scheme \in ExternalSchemes : StartsWith(target, scheme)

\* The pieces of the last text that are references to a document.
References ==
    SelectSeq([i \in 1..Len(Val(parse_call).document) |-> Val(parse_call).document[i][1]],
              LAMBDA item : item.kind = "wiki"
                            \/ (item.kind = "md" /\ ~BeginsWithScheme(item.target)))

\* As many links of this type and text were made as `expected` holds.
SameLinks(expected) ==
    /\ Len(Val(Val(parse_call).links)) = Len(expected)
    /\ \A e \in Elems(expected) :
            Count(e, expected) =
                Count(e, [i \in 1..Len(Val(Val(parse_call).links)) |->
                            <<Val(Val(parse_call).links)[i].link_type,
                              Val(Val(parse_call).links)[i].link_text>>])

\* C17 as stated: one Link for each wiki-style reference and for each
\* markdown-style reference that is not external, none for the external
\* ones; the link_text of [[target|display]] is the part before the first
\* "|", that of [display](target) is the target.
C17_OneLinkPerReference ==
    op = "_extract_links" =>
        SameLinks([i \in 1..Len(References) |->
            IF References[i].kind = "wiki"
            THEN <<WIKI, BeforeBar(References[i].inner)>>
            ELSE <<MARKDOWN, References[i].target>>])

\* C17: the same, the link_text of a wiki-style reference being the part
\* before the first "|" without the white space around it.
C17_OneLinkPerReferenceStripped ==
    op = "_extract_links" =>
        SameLinks([i \in 1..Len(References) |->
            IF References[i].kind = "wiki"
            THEN <<WIKI, Strip(BeforeBar(References[i].inner))>>
            ELSE <<MARKDOWN, References[i].target>>])

\* A text with a wiki-style reference with an alias and an external
\* markdown-style reference on one line was parsed into one link.
C17_Witness ==
    /\ op = "_extract_links"
    /\ Len(Val(Val(parse_call).links)) = 1
    /\ Len(Val(parse_call).document) = 2
    /\ ~Val(parse_call).document[1][2]
    /\ \E i, j \in 1..2 :
            /\ Val(parse_call).document[i][1].kind = "wiki"
            /\ InSeq("|", Val(parse_call).document[i][1].inner)
            /\ Val(parse_call).document[j][1].kind = "md"
            /\ BeginsWithScheme(Val(parse_call).document[j][1].target)

-----------------------------------------------------------------------------
(* Properties of the incremental update *)

\* The documents the last update_graph was told have changed.
Changed == Elems(Val(update_call).changed_files)

\* Every changed document was parsed again and none was also removed.
ChangedParsed ==
    \A c \in Changed : CanParse(fs, c) /\ ~InSeq(c, Val(update_call).removed_files)

\* C19 as stated: after update_graph the entries of a node's incoming_links
\* whose source is a changed document are exactly the links of the re-parsed
\* changed documents that are not broken and target the node: no entry of the
\* earlier version is left, and every new link is there, several links from
\* one document to one target included.
C19_IncomingOfChangedRefreshed ==
    (op = "update_graph" /\ ChangedParsed) =>
        \A i \in 1..Len(G.nodes) : \A c \in Changed :
            \A l \in Elems(G.nodes[i].incoming_links)
                        \cup Elems(NodeAt(G.nodes, c).note.outgoing_links) :
                l.source_path = c =>
                    Count(l, G.nodes[i].incoming_links) =
                        IF ~l.is_broken /\ l.target_path = Some(G.nodes[i].note.path)
                        THEN Count(l, NodeAt(G.nodes, c).note.outgoing_links)
                        ELSE 0

\* The nodes hold the documents as they are now: a node for each file that
\* parses, with the links its text holds.
AsParsed(l) == <<l.link_type, l.link_text, l.line_number>>

ContentFresh(g, tree) ==
    /\ KeySet(g.nodes) = Parsed(tree)
    /\ \A i \in 1..Len(g.nodes) :
            [k \in 1..Len(g.nodes[i].note.outgoing_links) |->
                    AsParsed(g.nodes[i].note.outgoing_links[k])]
                = [k \in 1..Len(ParseFile(tree, g.nodes[i].note.path).outgoing_links) |->
                    AsParsed(ParseFile(tree, g.nodes[i].note.path).outgoing_links[k])]

\* The degrees a build_graph by a new GraphBuilder over the tree may give.
FreshDegrees(tree) ==
    {Degrees(build_graph(_build_file_index(tree, listing), tree, listing,
                         [outcome |-> "NetworkXError",
                          scores |-> [k \in Parsed(tree) |-> PageRankScore]])) :
        listing \in Listings(tree)}

\* C20 as stated: after update_graph on a built graph, told of what changed,
\* every node's in_degree and out_degree are those a fresh build_graph over
\* the files as they are gives it.
C20_DegreesAsFreshBuild ==
    (op = "update_graph" /\ ContentFresh(G, fs)) => Degrees(G) \in FreshDegrees(fs)

\* C21 as stated: update_graph leaves clusters, hub_nodes and orphan_nodes as
\* they were, and leaves the cluster_id and the centrality_score of every node
\* that is in the graph before and after it as they were.
C21_UpdateLeavesAnalytics ==
    [][(op' = "update_graph" /\ updates' = updates + 1) =>
            /\ Val(graph').clusters = Val(graph).clusters
            /\ Val(graph').hub_nodes = Val(graph).hub_nodes
            /\ Val(graph').orphan_nodes = Val(graph).orphan_nodes
            /\ \A path \in KeySet(Val(graph).nodes) \cap KeySet(Val(graph').nodes) :
                    /\ NodeAt(Val(graph').nodes, path).cluster_id
                            = NodeAt(Val(graph).nodes, path).cluster_id
                    /\ NodeAt(Val(graph').nodes, path).centrality_score
                            = NodeAt(Val(graph).nodes, path).centrality_score]_vars

-----------------------------------------------------------------------------
(* Properties of the hub selection *)

\* The node comes before the other in every ordering by total degree
\* descending, then centrality descending.
Before(a, b) ==
    \/ a.in_degree + a.out_degree > b.in_degree + b.out_degree
    \/ /\ a.in_degree + a.out_degree = b.in_degree + b.out_degree
       /\ a.centrality_score.num * b.centrality_score.den
            > b.centrality_score.num * a.centrality_score.den

\* The nodes of total degree 2 or more.
Eligible(nodes) ==
    {nodes[i].note.path : i \in {j \in 1..Len(nodes) :
        nodes[j].in_degree + nodes[j].out_degree >= 2}}

\* hubs is the list of the nodes of total degree 2 or more among the first
\* top_n of an ordering of nodes by degree, then centrality, in that order.
HubsOfFirstTen(nodes, hubs) ==
    /\ IsDistinct(hubs)
    /\ Elems(hubs) \subseteq Eligible(nodes)
    /\ Len(hubs) = IF Cardinality(Eligible(nodes)) < 10
                   THEN Cardinality(Eligible(nodes)) ELSE 10
    /\ \A i, j \in 1..Len(hubs) :
            i < j => ~Before(NodeAt(nodes, hubs[j]), NodeAt(nodes, hubs[i]))
    /\ \A p \in Eligible(nodes) \ Elems(hubs) : \A h \in Elems(hubs) :
            ~Before(NodeAt(nodes, p), NodeAt(nodes, h))

\* C22: hub_nodes is exactly the nodes of total degree 2 or more among the
\* first 10 nodes of the ordering by total degree descending, then centrality
\* descending, listed in that order: at most 10 entries, none of total degree
\* below 2.
C22_HubsAreTopTen ==
    op = "_find_hub_nodes" =>
        HubsOfFirstTen(Val(returned).nodes, Val(Val(returned).result))

\* Of more than ten nodes of total degree 2 or more, with ties in degree and
\* centrality, ten were listed.
C22_Witness ==
    /\ op = "_find_hub_nodes"
    /\ Cardinality(Eligible(Val(returned).nodes)) > 10
    /\ Len(Val(Val(returned).result)) = 10
    /\ \E p \in Eligible(Val(returned).nodes) \ Elems(Val(Val(returned).result)) :
            ~Before(NodeAt(Val(returned).nodes, Val(Val(returned).result)[10]),
                    NodeAt(Val(returned).nodes, p))

-----------------------------------------------------------------------------
(* Properties of resolve_link *)

\* None of the five strategies has a candidate for the wiki text: no file of
\* that path below the source's directory or the root, no bucket of the index
\* and no *.md file of the source's directory whose lowercased stem holds the
\* lowercased text.
NothingFound(index, tree, text, source_path) ==
    /\ InSeq("/", Strip(text)) =>
            /\ ~Exists(tree, Join(Parent(source_path), Strip(text) \o DotMd))
            /\ ~Exists(tree, Join(NotesRoot, Strip(text) \o DotMd))
    /\ \A i \in 1..Len(index) :
            ~Contains(LowerStr(Strip(text)), LowerStr(index[i].key))
    /\ \A f \in DOMAIN tree :
            (tree[f].present /\ Parent(f) = Parent(source_path) /\ EndsWith(Name(f), DotMd))
                => ~Contains(LowerStr(Strip(text)), LowerStr(Stem(f)))

\* C23: after resolve_link the link is broken iff no candidate was found or
\* the candidate is not on disk; a wiki link for which the five strategies
\* find nothing has no target_path and is broken.
C23_BrokenIffNoLiveCandidate ==
    op = "resolve_link" =>
        /\ Val(returned).result.is_broken <=>
                \/ Val(returned).result.target_path = None
                \/ ~Exists(fs, Val(Val(returned).result.target_path))
        /\ Val(returned).link.link_type = WIKI =>
                (NothingFound(Val(file_index), fs, Val(returned).link.link_text,
                              Val(returned).link.source_path)
                    <=> Val(returned).result.target_path = None)
        /\ Val(returned).result.target_path = None => Val(returned).result.is_broken

\* A link was resolved to a file of the index that is not on disk, and is
\* broken.
C23_Witness ==
    /\ op = "resolve_link"
    /\ Val(returned).result.target_path # None
    /\ Val(returned).result.is_broken

\* A wiki link for which nothing was found is broken, without target_path.
C23_NothingFoundReached ==
    /\ op = "resolve_link"
    /\ Val(returned).link.link_type = WIKI
    /\ Val(returned).result.target_path = None
    /\ Val(returned).result.is_broken
    /\ Val(file_index) # <<>>

-----------------------------------------------------------------------------
(* Properties of the path-style links *)

\* The document a markdown link with ".." segments names: its target, taken
\* from the source's directory, with the ".." segments worked out.
NamedDocument(l) == Resolve(Join(Parent(l.source_path), l.link_text))

\* C24 as stated: a markdown link written with ".." segments that names a
\* document of the graph is resolved to that node's key; build_graph appends
\* it to that node's incoming_links and not to broken_links.
C24_ParentRelativeLinksResolve ==
    op = "build_graph" =>
        \A i \in 1..Len(G.nodes) :
            ResolvedCount(fs, G.nodes[i].note.outgoing_links)
                    = Len(G.nodes[i].note.outgoing_links) =>
                \A l \in Elems(G.nodes[i].note.outgoing_links) :
                    (/\ l.link_type = MARKDOWN
                     /\ StartsWith(l.link_text, <<".", ".", "/">>)
                     /\ HasKey(G.nodes, NamedDocument(l))) =>
                        /\ l.target_path = Some(NamedDocument(l))
                        /\ InSeq(l, NodeAt(G.nodes, NamedDocument(l)).incoming_links)
                        /\ ~InSeq(l, G.broken_links)

-----------------------------------------------------------------------------
(* Properties of the shortest paths *)

\* A link that is not broken leads from node u to node v.
Linked(g, u, v) ==
    /\ HasKey(g.nodes, u)
    /\ HasKey(g.nodes, v)
    /\ \E l \in Elems(NodeAt(g.nodes, u).note.outgoing_links) :
            ~l.is_broken /\ l.target_path = Some(v)

\* The directed paths from source to target, no node twice.
DirectedPaths(g, source, target) ==
    {p \in SeqsUpTo(KeySet(g.nodes), Len(g.nodes)) :
        /\ p # <<>>
        /\ p[1] = source
        /\ p[Len(p)] = target
        /\ IsDistinct(p)
        /\ \A i \in 1..(Len(p) - 1) : Linked(g, p[i], p[i + 1])}

\* C25: find_shortest_paths returns the empty list when source or target is
\* no node or target cannot be reached from source; otherwise at most
\* max_paths paths, each from source to target along directed links that are
\* not broken and of the least number of hops.
C25_ShortestPaths ==
    op = "find_shortest_paths" =>
        LET call == Val(returned)
            paths == DirectedPaths(G, call.source, call.target)
        IN  /\ (~HasKey(G.nodes, call.source) \/ ~HasKey(G.nodes, call.target)
                    \/ paths = {}) => call.result = <<>>
            /\ Len(call.result) <= call.max_paths
            /\ IsDistinct(call.result)
            /\ \A p \in Elems(call.result) :
                    p \in paths /\ \A q \in paths : Len(p) <= Len(q)
            /\ (paths # {} /\ call.max_paths > 0) => call.result # <<>>

\* Of two shortest paths of two hops one was returned.
C25_Witness ==
    /\ op = "find_shortest_paths"
    /\ Val(returned).max_paths = 1
    /\ Len(Val(returned).result) = 1
    /\ Len(Val(returned).result[1]) = 3
    /\ Cardinality({p \in DirectedPaths(G, Val(returned).source, Val(returned).target) :
                        Len(p) = 3}) = 2

-----------------------------------------------------------------------------
(* Properties of the statistics *)

\* The edges of the directed graph that the links which are not broken imply.
DirectedEdges(g) == {e \in KeySet(g.nodes) \X KeySet(g.nodes) : Linked(g, e[1], e[2])}

\* Two fractions are the same number.
SameNumber(score, num, den) == score.num * den = num * score.den

\* C29: total_edges is the number of edges of the directed graph of the links
\* that are not broken, so a broken link does not raise it; avg_degree is
\* total_edges / N and density is total_edges / (N * (N - 1)) of that count.
C29_TotalEdgesAreGraphEdges ==
    op = "get_graph_statistics" =>
        LET stats == Val(returned).stats
            edges == Cardinality(DirectedEdges(G))
            N == Len(G.nodes)
        IN  /\ stats.total_edges = edges
            /\ N > 0 => SameNumber(stats.avg_degree, edges, N)
            /\ N > 1 => SameNumber(stats.density, edges, N * (N - 1))

\* total_edges is the number of all links of the notes, broken or not.
C29_TotalEdgesAreLinks ==
    op = "get_graph_statistics" =>
        Val(returned).stats.total_edges
            = Len(G.broken_links) + Cardinality(DirectedEdges(G))

\* The statistics of a graph with a broken link and several edges.
C29_BrokenLinkCounted ==
    /\ op = "get_graph_statistics"
    /\ G.broken_links # <<>>
    /\ Cardinality(DirectedEdges(G)) > 1

====
